---- MODULE Spec2Model ----
(***************************************************************************)
(* LXMLFormatter: the buffered UTF-8 input stream and the streaming XML    *)
(* tokenizer built on it.  The stream is a record `in_`, the tokenizer's   *)
(* fields are the remaining variables; every C++ function is an operator   *)
(* from a world record (all fields at once) to the world after the call.   *)
(***************************************************************************)
EXTENDS Integers, Sequences, FiniteSets, TLC

VARIABLES
    in_,                \* BufferedInputStream& in_ (the stream object itself)
    opts_,              \* TokenizerOptions
    lims_,              \* TokenizerLimits (after clamping)
    state_,             \* State
    flags_,             \* TokenizerFlags, as the set of bits that are set
    tagStack_,          \* std::vector<TagFrame>
    textArena_,         \* TextArena::buf
    errors_,            \* std::vector<TokenizerError>
    errorArena_,        \* std::vector<char>: block, capacity, size, content
    tagBufFreelist_,    \* std::vector<std::unique_ptr<char[]>>
    freelistBlockSize_, \* ByteLen
    pendingStart_,      \* SourcePosition
    pendingStartValid_, \* bool
    heap,               \* blocks obtained with new char[n]: cap, live, bytes
    out,                \* the caller's XMLToken
    moved_,             \* the stream object in_ was move-constructed from:
                        \* << >> when there is none, << stream >> otherwise
    hist                \* observation of the calls made so far (history)

vars == << in_, opts_, lims_, state_, flags_, tagStack_, textArena_, errors_,
           errorArena_, tagBufFreelist_, freelistBlockSize_, pendingStart_,
           pendingStartValid_, heap, out, moved_, hist >>

(***************************************************************************)
(* Bounds of the model.                                                    *)
(***************************************************************************)
MaxInputLen == 2        \* all inputs over ShortAlphabet up to this length
BufferSize == 128       \* bufferSize handed to the stream's constructor
SmallBufferSize == 4    \* a bufferSize that the longer text inputs exceed
MaxStreamScalars == 3   \* scalars in an input of the stream specification
MaxStreamBuffer == 5    \* largest bufferSize of the stream specification
MaxSeqLen == 4          \* bytes in a sequence of the codec specification
ScalarWindow == 2       \* scalars on each side of an edge of the codec specification
MaxCalls == 1           \* reset(), clearErrors() and direct emitError()
                        \* calls per behaviour, taken together

(***************************************************************************)
(* Bytes the code names.                                                   *)
(***************************************************************************)
LF == 10
CR == 13
SPACE == 32
TAB == 9
ChLT == 60
ChGT == 62
ChSlash == 47
ChEq == 61
ChQuote == 34

Min(a, b) == IF a < b THEN a ELSE b
Max(a, b) == IF a > b THEN a ELSE b
Last(s) == s[Len(s)]
Front(s) == SubSeq(s, 1, Len(s) - 1)

(***************************************************************************)
(* BufferedInputStream (src/src/BufferedInputStream.cpp).  A stream is a   *)
(* record; `input` is the content of the std::istream and srcPos the       *)
(* number of bytes already read from it.  buffer is 1-based here, so the   *)
(* C++ buffer_[i] is buffer[i + 1].                                        *)
(***************************************************************************)

\* Every call of one modelled function by another is written call("f", ...),
\* naming the callee; call is defined after the last of them.
RECURSIVE call(_, _, _)

\* stream_.read(buffer_ + readPos, readSize); returns the stream with
\* gcount in field gcount.  The buffer_ of a moved-from stream is null
\* (buffer = << >>): the source stores the bytes it extracts through the
\* null pointer, which is undefined behaviour (field ub); nothing of that
\* call's result is used then.
streamRead(s, readPos, readSize) ==
    LET n == Min(readSize, Len(s.input) - s.srcPos) IN
    IF s.buffer = <<>>
    THEN [s EXCEPT !.srcPos = @ + n, !.gcount = 0, !.ub = (n > 0)]
    ELSE
    [s EXCEPT !.buffer = [i \in 1..s.bufferSize |->
                             IF i > readPos /\ i <= readPos + n
                             THEN s.input[s.srcPos + (i - readPos)]
                             ELSE s.buffer[i]],
              !.srcPos = @ + n,
              !.gcount = n]

fillBuffer(s) ==
    LET r == call("streamRead", s, << 0, s.bufferSize >>) IN
    IF r.gcount = 0 THEN r
    ELSE [r EXCEPT !.bufferPos = 0, !.bufferEnd = r.gcount]

detectEncoding(s) ==
    IF s.bufferEnd < 4 THEN [s EXCEPT !.encoding = "UTF8_NO_BOM"]
    ELSE IF s.buffer[1] = 239 /\ s.buffer[2] = 187 /\ s.buffer[3] = 191
    THEN [s EXCEPT !.encoding = "UTF8", !.bomSize = 3,
                   !.bufferPos = 3, !.totalBytesRead = 3]
    ELSE IF s.buffer[1] = 254 /\ s.buffer[2] = 255
    THEN [s EXCEPT !.encoding = "UTF16_BE", !.bomSize = 2,
                   !.bufferPos = 2, !.totalBytesRead = 2]
    ELSE IF s.buffer[1] = 255 /\ s.buffer[2] = 254
    THEN IF s.bufferEnd >= 4 /\ s.buffer[3] = 0 /\ s.buffer[4] = 0
         THEN [s EXCEPT !.encoding = "UTF32_LE", !.bomSize = 4,
                        !.bufferPos = 4, !.totalBytesRead = 4]
         ELSE [s EXCEPT !.encoding = "UTF16_LE", !.bomSize = 2,
                        !.bufferPos = 2, !.totalBytesRead = 2]
    ELSE [s EXCEPT !.encoding = "UTF8_NO_BOM", !.bomSize = 0]

\* BufferedInputStream::BufferedInputStream(std::istream&, size_t)
BufferedInputStream(input, bufferSize) ==
    call("detectEncoding", call("fillBuffer", [input |-> input, srcPos |-> 0, gcount |-> 0,
         bufferSize |-> bufferSize,
         buffer |-> [i \in 1..bufferSize |-> 0],
         bufferPos |-> 0, bufferEnd |-> 0,
         currentLine |-> 1, currentColumn |-> 1, totalBytesRead |-> 0,
         encoding |-> "UTF8_NO_BOM", bomSize |-> 0, hasPendingCR |-> FALSE,
         ok |-> TRUE, ch |-> 0, ub |-> FALSE], << >>), << >>)

\* ensureData(bytes): the result is in field ok.  bufferEnd_ - bufferPos_ is
\* a size_t difference: when bufferPos_ > bufferEnd_ it wraps to a huge
\* value, the test "> 0" passes and memmove is called with that length,
\* which is undefined behaviour (field ub).
ensureData(s, bytes) ==
    IF bytes > s.bufferSize THEN [s EXCEPT !.ok = FALSE]
    ELSE IF s.bufferPos + bytes <= s.bufferEnd THEN [s EXCEPT !.ok = TRUE]
    ELSE
      LET moved ==
            IF s.bufferPos > (s.bufferSize \div 4) /\ s.bufferEnd # s.bufferPos
            THEN IF s.bufferEnd < s.bufferPos
                 THEN [s EXCEPT !.ub = TRUE]
                 ELSE LET remaining == s.bufferEnd - s.bufferPos IN
                      [s EXCEPT !.buffer = [i \in 1..s.bufferSize |->
                                    IF i <= remaining
                                    THEN s.buffer[s.bufferPos + i]
                                    ELSE s.buffer[i]],
                                !.bufferEnd = remaining,
                                !.bufferPos = 0]
            ELSE IF s.bufferPos >= s.bufferEnd
            THEN [s EXCEPT !.bufferPos = 0, !.bufferEnd = 0]
            ELSE s
      IN IF moved.ub THEN [moved EXCEPT !.ok = FALSE]
         ELSE LET r == call("streamRead", moved, << moved.bufferEnd,
                                  moved.bufferSize - moved.bufferEnd >>)
                  r2 == [r EXCEPT !.bufferEnd = @ + r.gcount]
              IN [r2 EXCEPT !.ok = (r2.bufferPos + bytes <= r2.bufferEnd)]

RECURSIVE advanceLoop(_, _, _)
advanceLoop(s, i, consumed) ==
    IF i >= consumed THEN s
    ELSE IF s.bufferPos < s.bufferEnd
    THEN LET c == s.buffer[s.bufferPos + 1]
             s1 == [s EXCEPT !.bufferPos = @ + 1, !.totalBytesRead = @ + 1]
         IN IF s.hasPendingCR /\ c = LF
            THEN call("advanceLoop", [s1 EXCEPT !.hasPendingCR = FALSE,
                                        !.currentColumn = 1], << i + 1, consumed >>)
            ELSE LET s2 == [s1 EXCEPT !.hasPendingCR = FALSE] IN
                 IF c = LF
                 THEN call("advanceLoop", [s2 EXCEPT !.currentLine = @ + 1,
                                             !.currentColumn = 1], <<
                                  i + 1, consumed >>)
                 ELSE IF c = CR
                 THEN LET s3 == [s2 EXCEPT !.currentLine = @ + 1,
                                           !.currentColumn = 1]
                      IN IF s3.bufferPos < s3.bufferEnd
                            /\ s3.buffer[s3.bufferPos + 1] = LF
                         THEN call("advanceLoop", [s3 EXCEPT !.bufferPos = @ + 1,
                                           !.totalBytesRead = @ + 1], <<
                                i + 1, consumed + 1 >>)
                         ELSE IF s3.bufferPos >= s3.bufferEnd
                         THEN call("advanceLoop", [s3 EXCEPT !.hasPendingCR = TRUE], <<
                                          i + 1, consumed >>)
                         ELSE call("advanceLoop", s3, << i + 1, consumed >>)
                 ELSE IF (c \div 64) # 2
                 THEN call("advanceLoop", [s2 EXCEPT !.currentColumn = @ + 1], <<
                                  i + 1, consumed >>)
                 ELSE call("advanceLoop", s2, << i + 1, consumed >>)
    ELSE call("advanceLoop", s, << i + 1, consumed >>)

\* advance that counts every byte in the column
advance_countsBytes(s, bytes) ==
    [call("advanceLoop", s, << 0, bytes >>) EXCEPT
        !.currentColumn = s.currentColumn + bytes]

\* BufferedInputStream::advance(size_t bytes)
advance(s, bytes) == call("advanceLoop", s, << 0, bytes >>)

\* the continuation-byte loop of getChar: cp accumulated over bytes 1..bytes-1,
\* -1 when some byte is not a continuation byte
RECURSIVE getCharCont(_, _, _, _)
getCharCont(s, i, bytes, cp) ==
    IF i >= bytes THEN cp
    ELSE LET b == s.buffer[s.bufferPos + i + 1] IN
         IF (b \div 64) # 2 THEN -1
         ELSE call("getCharCont", s, << i + 1, bytes, cp * 64 + (b % 64) >>)

\* BufferedInputStream::getChar(); the returned value is in field ch
getChar(s) ==
    IF s.encoding # "UTF8" /\ s.encoding # "UTF8_NO_BOM"
    THEN [s EXCEPT !.ch = -2]
    ELSE LET e == call("ensureData", s, << 1 >>) IN
    IF ~e.ok THEN [e EXCEPT !.ch = -1]
    ELSE LET first == e.buffer[e.bufferPos + 1] IN
    IF first < 128
    THEN [call("advance", e, << 1 >>) EXCEPT !.ch = IF first = 0 THEN -2 ELSE first]
    ELSE LET bytes == IF first \div 32 = 6 THEN 2
                      ELSE IF first \div 16 = 14 THEN 3
                      ELSE IF first \div 8 = 30 THEN 4
                      ELSE 0
             lead == IF bytes = 2 THEN first % 32
                     ELSE IF bytes = 3 THEN first % 16
                     ELSE first % 8
         IN
    IF bytes = 0 THEN [call("advance", e, << 1 >>) EXCEPT !.ch = -2]
    ELSE LET e2 == call("ensureData", e, << bytes >>) IN
    IF ~e2.ok THEN [e2 EXCEPT !.ch = -2]
    ELSE LET cp == call("getCharCont", e2, << 1, bytes, lead >>) IN
    IF cp < 0 THEN [call("advance", e2, << 1 >>) EXCEPT !.ch = -2]
    ELSE IF cp > 1114111 \/ (cp >= 55296 /\ cp <= 57343)
    THEN [call("advance", e2, << 1 >>) EXCEPT !.ch = -2]
    ELSE IF (bytes = 2 /\ cp < 128) \/ (bytes = 3 /\ cp < 2048)
            \/ (bytes = 4 /\ cp < 65536)
    THEN [call("advance", e2, << 1 >>) EXCEPT !.ch = -2]
    ELSE [call("advance", e2, << bytes >>) EXCEPT !.ch = cp]

\* BufferedInputStream::peekChar(): getChar, then the four saved fields are
\* put back (the buffer, bufferEnd_ and hasPendingCR_ are not)
peekChar(s) ==
    LET g == call("getChar", s, << >>) IN
    [g EXCEPT !.bufferPos = s.bufferPos,
              !.currentLine = s.currentLine,
              !.currentColumn = s.currentColumn,
              !.totalBytesRead = s.totalBytesRead]

\* BufferedInputStream(BufferedInputStream&& other): the new object (to) and
\* what is left of other (from); both refer to the same std::istream
moveConstruct(other) ==
    [to |-> other,
     from |-> [other EXCEPT !.buffer = <<>>, !.bufferPos = 0,
                            !.bufferEnd = 0, !.hasPendingCR = FALSE]]

getCurrentLine(s) == s.currentLine
getCurrentColumn(s) == s.currentColumn
getTotalBytesRead(s) == s.totalBytesRead - s.bomSize


(***************************************************************************)
(* UTF8Handler::encode (src/src/UTF8Handler.h): status, width and the      *)
(* bytes written.                                                          *)
(***************************************************************************)
\* a check that rejects U+D800 alone
check_surrogates_onlyFirst(cp) == cp # 55296

\* a check that lets the surrogates through
check_surrogates_none(cp) == TRUE

check_surrogates(cp) == (cp \div 2048) # 27      \* (cp & 0xFFFFF800) != 0xD800

encode(cp, avail) ==
    IF ~check_surrogates(cp) \/ cp > 1114111
    THEN [status |-> "Invalid", width |-> 1, bytes |-> <<>>]
    ELSE LET need == IF cp <= 127 THEN 1
                     ELSE IF cp <= 2047 THEN 2
                     ELSE IF cp <= 65535 THEN 3
                     ELSE 4
         IN IF avail < need
            THEN [status |-> "NeedMore", width |-> need, bytes |-> <<>>]
            ELSE [status |-> "Ok", width |-> need,
                  bytes |->
                    CASE need = 1 -> << cp >>
                      [] need = 2 -> << 192 + (cp \div 64), 128 + (cp % 64) >>
                      [] need = 3 -> << 224 + (cp \div 4096),
                                        128 + ((cp \div 64) % 64),
                                        128 + (cp % 64) >>
                      [] OTHER    -> << 240 + (cp \div 262144),
                                        128 + ((cp \div 4096) % 64),
                                        128 + ((cp \div 64) % 64),
                                        128 + (cp % 64) >>]

\* a first-byte table in which C0 and C1 start two-byte sequences
make_utf8_info_withC0(byte) ==
    IF byte <= 127 THEN [bytes |-> 1, mask |-> 127, shift |-> 0, min_cp |-> 0]
    ELSE IF byte >= 128 /\ byte <= 191
    THEN [bytes |-> 0, mask |-> 0, shift |-> 0, min_cp |-> 0]
    ELSE IF byte >= 192 /\ byte <= 223
    THEN [bytes |-> 2, mask |-> 31, shift |-> 6, min_cp |-> 128]
    ELSE IF byte >= 224 /\ byte <= 239
    THEN [bytes |-> 3, mask |-> 15, shift |-> 12, min_cp |-> 2048]
    ELSE IF byte >= 240 /\ byte <= 244
    THEN [bytes |-> 4, mask |-> 7, shift |-> 18, min_cp |-> 65536]
    ELSE [bytes |-> 0, mask |-> 0, shift |-> 0, min_cp |-> 0]

\* ShUTF8Detail::make_utf8_info: the table entry of a first byte
make_utf8_info(byte) ==
    IF byte <= 127 THEN [bytes |-> 1, mask |-> 127, shift |-> 0, min_cp |-> 0]
    ELSE IF byte >= 128 /\ byte <= 191
    THEN [bytes |-> 0, mask |-> 0, shift |-> 0, min_cp |-> 0]
    ELSE IF byte >= 192 /\ byte <= 193
    THEN [bytes |-> 0, mask |-> 0, shift |-> 0, min_cp |-> 0]
    ELSE IF byte >= 194 /\ byte <= 223
    THEN [bytes |-> 2, mask |-> 31, shift |-> 6, min_cp |-> 128]
    ELSE IF byte >= 224 /\ byte <= 239
    THEN [bytes |-> 3, mask |-> 15, shift |-> 12, min_cp |-> 2048]
    ELSE IF byte >= 240 /\ byte <= 244
    THEN [bytes |-> 4, mask |-> 7, shift |-> 18, min_cp |-> 65536]
    ELSE [bytes |-> 0, mask |-> 0, shift |-> 0, min_cp |-> 0]

\* a continuation byte taken whole, its tag bits included
CONTINUATION_VALUE_keepsTag(b) == b

IS_CONTINUATION(b) == (b \div 64) = 2           \* ((b) & 0xC0) == 0x80
CONTINUATION_VALUE(b) == b % 64                 \* (b) & 0x3F

\* UTF8Handler::decode(p, avail): p is the byte sequence that starts at the
\* pointer, of which the first avail bytes may be read
decode(p, avail) ==
    IF avail = 0 THEN [cp |-> 0, width |-> 1, status |-> "NeedMore"]
    ELSE
      LET first == p[1]
          info == make_utf8_info(first)
          invalid == [cp |-> 0, width |-> 1, status |-> "Invalid"]
          lead == (first % (info.mask + 1)) * (2 ^ info.shift)
      IN IF info.bytes = 1 THEN [cp |-> first, width |-> 1, status |-> "Ok"]
         ELSE IF info.bytes = 0 THEN invalid
         ELSE IF avail < info.bytes
         THEN [cp |-> 0, width |-> info.bytes, status |-> "NeedMore"]
         ELSE IF info.bytes = 2
         THEN IF ~IS_CONTINUATION(p[2]) THEN invalid
              ELSE LET codepoint == lead + CONTINUATION_VALUE(p[2]) IN
                   IF codepoint < info.min_cp THEN invalid
                   ELSE [cp |-> codepoint, width |-> 2, status |-> "Ok"]
         ELSE IF info.bytes = 3
         THEN IF ~IS_CONTINUATION(p[2]) \/ ~IS_CONTINUATION(p[3]) THEN invalid
              ELSE LET codepoint == lead + CONTINUATION_VALUE(p[2]) * 64
                                         + CONTINUATION_VALUE(p[3]) IN
                   IF codepoint < info.min_cp THEN invalid
                   ELSE IF ~check_surrogates(codepoint) THEN invalid
                   ELSE [cp |-> codepoint, width |-> 3, status |-> "Ok"]
         ELSE IF ~IS_CONTINUATION(p[2]) \/ ~IS_CONTINUATION(p[3])
                 \/ ~IS_CONTINUATION(p[4]) THEN invalid
              ELSE LET codepoint == lead + CONTINUATION_VALUE(p[2]) * 4096
                                         + CONTINUATION_VALUE(p[3]) * 64
                                         + CONTINUATION_VALUE(p[4]) IN
                   IF codepoint < info.min_cp \/ codepoint > 1114111 THEN invalid
                   ELSE [cp |-> codepoint, width |-> 4, status |-> "Ok"]

(***************************************************************************)
(* BufferedInputStream::readWhile (src/src/BufferedInputStream.h).  A      *)
(* predicate is a record: "until" accepts every scalar but d, "in" accepts *)
(* the scalars of a set.                                                   *)
(***************************************************************************)
Accepts(pred, cp) ==
    IF pred.kind = "until" THEN cp # pred.d ELSE cp \in pred.set

\* available(): bufferEnd_ - bufferPos_
available(s) == s.bufferEnd - s.bufferPos

\* isValid(): the stream has a live buffer and positive capacity
isValid(s) == s.buffer # <<>> /\ s.bufferSize > 0

\* ensureAtLeast(n): when fewer than n bytes are available, the unread bytes
\* are moved to the front and the rest of the buffer is read from the source;
\* the result is in field ok
ensureAtLeast(s, n) ==
    IF available(s) >= n THEN [s EXCEPT !.ok = TRUE]
    ELSE LET remaining == available(s)
             moved == IF s.bufferPos > 0
                      THEN [s EXCEPT !.buffer = [i \in 1..s.bufferSize |->
                                        IF i <= remaining
                                        THEN s.buffer[s.bufferPos + i]
                                        ELSE s.buffer[i]],
                                     !.bufferEnd = remaining,
                                     !.bufferPos = 0]
                      ELSE s
             r == call("streamRead", moved, << moved.bufferEnd,
                               moved.bufferSize - moved.bufferEnd >>)
             r2 == [r EXCEPT !.bufferEnd = @ + r.gcount]
         IN [r2 EXCEPT !.ok = (available(r2) >= n)]

\* decode(buffer_.get() + bufferPos_, available())
decodeAtPos(s) ==
    call("decode", SubSeq(s.buffer, s.bufferPos + 1, s.bufferEnd),
         << available(s) >>)

\* the inner loop of readWhile: consumes scalars of the current window while
\* they decode and the predicate accepts them
RECURSIVE readWhileInner(_, _)
readWhileInner(s, pred) ==
    IF ~(s.bufferPos < s.bufferEnd) THEN s
    ELSE LET r == call("decodeAtPos", s, << >>) IN
         IF r.status = "NeedMore" THEN s
         ELSE IF r.status # "Ok" THEN s
         ELSE IF ~Accepts(pred, r.cp) THEN s
         ELSE call("readWhileInner", call("advance", s, << r.width >>),
                   << pred >>)

\* the outer loop of readWhile on the record [s, out, hang]: s the stream,
\* out the bytes appended.  An iteration that ends on NeedMore with bytes
\* still in the window leaves the stream as it found it, and the next
\* iteration neither refills (bufferPos_ # bufferEnd_) nor consumes: the loop
\* never ends (hang).
RECURSIVE readWhileOuter(_, _)
readWhileOuter(x, pred) ==
    LET s1 == IF x.s.bufferPos = x.s.bufferEnd
              THEN call("ensureAtLeast", x.s, << 1 >>)
              ELSE [x.s EXCEPT !.ok = TRUE]
    IN IF ~s1.ok THEN [x EXCEPT !.s = s1]
       ELSE LET start == s1.bufferPos
                s2 == call("readWhileInner", s1, << pred >>)
                x2 == [x EXCEPT !.s = s2,
                                !.out = @ \o SubSeq(s2.buffer, start + 1,
                                                    s2.bufferPos)]
            IN IF s2.bufferPos < s2.bufferEnd
               THEN LET r2 == call("decodeAtPos", s2, << >>) IN
                    IF r2.status = "Ok" /\ ~Accepts(pred, r2.cp) THEN x2
                    ELSE IF r2.status = "Invalid" THEN x2
                    ELSE [x2 EXCEPT !.hang = TRUE]
               ELSE call("readWhileOuter", x2, << pred >>)

\* readWhile(out, pred); the bytes appended to out are in field out
readWhile(s, pred) ==
    IF ~isValid(s) THEN [s |-> s, out |-> <<>>, hang |-> FALSE]
    ELSE call("readWhileOuter", [s |-> s, out |-> <<>>, hang |-> FALSE],
              << pred >>)

(***************************************************************************)
(* XMLTokenizerTypes.h                                                     *)
(***************************************************************************)
kBadOff == -1                            \* 0xFFFFFFFFu, the all-ones pattern
AbsMaxNameBytes == 65536
AbsMaxAttrValueBytes == 67108864
AbsMaxTextRunBytes == 67108864
AbsMaxPerTagBytes == 16777216
kFreelistMemoryBudget == 67108864
defaultErrorMessage == "Tokenizer error"
defaultErrorMessageLen == 15             \* sizeof(defaultErrorMessage) - 1

isAscii(cp) == cp < 128
isXMLWhitespace(cp) == cp = 32 \/ cp = 9 \/ cp = 10 \/ cp = 13
isNameStart(cp) ==
    IF isAscii(cp)
    THEN cp = 58 \/ cp = 95 \/ (cp >= 65 /\ cp <= 90) \/ (cp >= 97 /\ cp <= 122)
    ELSE TRUE
isNameChar(cp) ==
    IF isAscii(cp)
    THEN isNameStart(cp) \/ cp = 45 \/ cp = 46 \/ (cp >= 48 /\ cp <= 57)
    ELSE TRUE

\* pointers: a kind, the block pointed into and the offset in it
NullPtr == [kind |-> "null", blk |-> 0, off |-> 0]
TextPtr(off) == [kind |-> "text", blk |-> 0, off |-> off]
TagPtr(blk, off) == [kind |-> "tag", blk |-> blk, off |-> off]
ErrPtr(blk, off) == [kind |-> "err", blk |-> blk, off |-> off]

NullMsg == [isNull |-> TRUE, text |-> ""]
Msg(text) == [isNull |-> FALSE, text |-> text]
strlen(text) == Len(text)

\* TagFrame() and SourcePosition{}
SourcePosition0 == [byteOffset |-> 0, line |-> 1, column |-> 1]
XMLToken0 == [type |-> "Text", data |-> NullPtr, length |-> 0,
              byteOffset |-> 0, line |-> 1, column |-> 1]

\* memcpy(mem + off, data, Len(data)) on the bytes of a block; bytes never
\* written are -1
writeBytes(bytes, off, data) ==
    [i \in 1..Max(Len(bytes), off + Len(data)) |->
        IF i > off /\ i <= off + Len(data) THEN data[i - off]
        ELSE IF i <= Len(bytes) THEN bytes[i]
        ELSE -1]

\* delete[] of block b (no-op on nullptr)
release(hp, b) == IF b = 0 THEN hp ELSE [hp EXCEPT ![b].live = FALSE]

\* what a reader of [data, data+length) sees: the bytes, or <<-2>> when the
\* slice is not (any longer) inside live storage
Deref(w, ptr, length) ==
    IF length = 0 THEN <<>>
    ELSE IF ptr.kind = "text"
    THEN IF ptr.off + length <= Len(w.textArena)
         THEN SubSeq(w.textArena, ptr.off + 1, ptr.off + length)
         ELSE << -2 >>
    ELSE IF ptr.kind = "tag"
    THEN IF ptr.blk >= 1 /\ ptr.blk <= Len(w.heap)
            /\ w.heap[ptr.blk].live
            /\ ptr.off + length <= w.heap[ptr.blk].cap
            /\ ptr.off + length <= Len(w.heap[ptr.blk].bytes)
         THEN SubSeq(w.heap[ptr.blk].bytes, ptr.off + 1, ptr.off + length)
         ELSE << -2 >>
    ELSE << -2 >>

\* the interned message an error pointer addresses, "" when the pointer
\* does not address the arena's current storage
DerefMsg(w, ptr, length) ==
    IF ptr.kind = "err" /\ ptr.blk = w.errorArena.blk
       /\ \E i \in 1..Len(w.errorArena.segs) :
             w.errorArena.segs[i].base = ptr.off
             /\ w.errorArena.segs[i].len = length
    THEN LET i == CHOOSE i \in 1..Len(w.errorArena.segs) :
                      w.errorArena.segs[i].base = ptr.off
                      /\ w.errorArena.segs[i].len = length
         IN w.errorArena.segs[i].text
    ELSE ""

(***************************************************************************)
(* XMLTokenizer (src/src/XMLTokenizer.cpp and the class definition).  w is *)
(* the world: the tokenizer's fields, the stream `in`, the heap, the       *)
(* caller's token `out`, the value returned (`ret`), and the observations  *)
(* `emitted`, `issued`, ... that the properties are stated over.           *)
(***************************************************************************)
clampBL(v, cap) == IF v > cap THEN cap ELSE v

currentPosition(w) ==
    [byteOffset |-> getTotalBytesRead(w.in),
     line |-> getCurrentLine(w.in),
     column |-> getCurrentColumn(w.in)]

\* w.marked is an observation: the positions this call has captured so far
markTokenStart(w) ==
    LET pos == call("currentPosition", w, << >>)
    IN [w EXCEPT !.pendingStart = pos, !.pendingStartValid = TRUE,
                 !.marked = Append(@, pos)]

getCp(w) == LET g == call("getChar", w.in, << >>) IN [w EXCEPT !.in = g, !.ret = g.ch]
peekCp(w) == LET g == call("peekChar", w.in, << >>) IN [w EXCEPT !.in = g, !.ret = g.ch]

\* the token `tok` is written through the XMLToken& parameter: dst is "out"
\* when that is the token nextToken() was given, "user" when it is the
\* token of a direct emitError() call, "dummy" for a local of the tokenizer
deliver(w, dst, tok, eid, code, sev) ==
    IF dst = "out"
    THEN [w EXCEPT !.out = tok,
                   !.emitted = Append(@,
                       [tok |-> tok, eid |-> eid, code |-> code, sev |-> sev,
                        snap |-> Deref(w, tok.data, tok.length),
                        msg |-> DerefMsg(w, tok.data, tok.length)])]
    ELSE IF dst = "user" THEN [w EXCEPT !.out = tok]
    ELSE w

internError(w, msg, len) ==
    LET useDefault == msg.isNull
        text == IF useDefault THEN defaultErrorMessage ELSE msg.text
        used == IF useDefault THEN defaultErrorMessageLen ELSE len
        a == w.errorArena
        need == a.size + used + 1
        newCap0 == IF a.cap # 0 THEN a.cap * 2 ELSE 256
        newCap == IF newCap0 < need THEN need ELSE newCap0
        \* reserve(newCap): new storage, the old block is freed
        grown == IF a.cap < need
                 THEN [a EXCEPT !.blk = @ + 1, !.cap = newCap]
                 ELSE a
        base == grown.size
        a2 == [grown EXCEPT !.size = base + used + 1,
                            !.segs = Append(@, [base |-> base, len |-> used,
                                                text |-> text])]
    IN [w EXCEPT !.errorArena = a2, !.ret = ErrPtr(a2.blk, base)]

\* emitError that ignores the pending start and reports at the cursor
emitError_atCursor(w, dst, code, sev, msg, msgLen) ==
    LET where == call("currentPosition", w, << >>)
        w1 == [w EXCEPT !.pendingStartValid = FALSE]
        effLen == IF msg.isNull THEN defaultErrorMessageLen ELSE msgLen
        w2 == call("internError", w1, << msg, effLen >>)
        stableMsg == w2.ret
        tok == [type |-> "Error", data |-> stableMsg, length |-> effLen,
                byteOffset |-> where.byteOffset, line |-> where.line,
                column |-> where.column]
        w3 == call("deliver", w2, << dst, tok, 0, code, sev >>)
        rec == [code |-> code, sev |-> sev, where |-> where,
                msg |-> stableMsg, msgLen |-> effLen]
        w4 == [w3 EXCEPT !.errors = Append(@, rec),
                         !.issued = Append(@,
                            [ptr |-> stableMsg, len |-> effLen,
                             text |-> DerefMsg(w2, stableMsg, effLen)])]
        w5 == IF sev = "Fatal"
              THEN [w4 EXCEPT !.flags = @ \cup {"Ended"}]
              ELSE w4
    IN [w5 EXCEPT !.ret = TRUE]

emitError(w, dst, code, sev, msg, msgLen) ==
    LET where == IF w.pendingStartValid THEN w.pendingStart
                 ELSE call("currentPosition", w, << >>)
        w1 == [w EXCEPT !.pendingStartValid = FALSE]
        effLen == IF msg.isNull THEN defaultErrorMessageLen ELSE msgLen
        w2 == call("internError", w1, << msg, effLen >>)
        stableMsg == w2.ret
        tok == [type |-> "Error", data |-> stableMsg, length |-> effLen,
                byteOffset |-> where.byteOffset, line |-> where.line,
                column |-> where.column]
        w3 == call("deliver", w2, << dst, tok, 0, code, sev >>)
        rec == [code |-> code, sev |-> sev, where |-> where,
                msg |-> stableMsg, msgLen |-> effLen]
        w4 == [w3 EXCEPT !.errors = Append(@, rec),
                         !.issued = Append(@,
                            [ptr |-> stableMsg, len |-> effLen,
                             text |-> DerefMsg(w2, stableMsg, effLen)])]
        w5 == IF sev = "Fatal"
              THEN [w4 EXCEPT !.flags = @ \cup {"Ended"}]
              ELSE w4
    IN [w5 EXCEPT !.ret = TRUE]

makeTextToken(w, off, len) ==
    LET where == IF w.pendingStartValid THEN w.pendingStart
                 ELSE call("currentPosition", w, << >>)
        w1 == [w EXCEPT !.pendingStartValid = FALSE]
        tok == [type |-> "Text",
                data |-> IF len # 0 THEN TextPtr(off) ELSE NullPtr,
                length |-> len,
                byteOffset |-> where.byteOffset, line |-> where.line,
                column |-> where.column]
    IN [call("deliver", w1, << "out", tok, 0, "None", "None" >>) EXCEPT !.ret = TRUE]

RECURSIVE scanTextLoop(_)
scanTextLoop(w) ==
    LET p == call("peekCp", w, << >>)
        cp == p.ret
    IN IF cp = ChLT \/ cp < 0
       THEN [call("makeTextToken", p, << 0, Len(p.textArena) >>) EXCEPT !.ret = TRUE]
       ELSE LET g == call("getCp", p, << >>) IN
            IF w.opts.normalizeLineEndings /\ cp = CR
            THEN LET q == call("peekCp", g, << >>)
                     q2 == IF q.ret = LF THEN call("getCp", q, << >>) ELSE q
                     a == [q2 EXCEPT !.textArena = Append(@, LF)]
                 IN IF Len(a.textArena) >= w.lims.maxTextRunBytes
                    THEN call("emitError", [a EXCEPT !.flags = @ \cup {"Ended"}], <<
                                   "out", "LimitExceeded", "Fatal",
                                   Msg("Text run exceeds limit"), 23 >>)
                    ELSE call("scanTextLoop", a, << >>)
            ELSE LET encResult == encode(cp, 4) IN
                 IF encResult.status # "Ok"
                 THEN call("emitError", g, << "out", "InvalidUTF8", "Fatal",
                                Msg("Failed to encode code point"), 25 >>)
                 ELSE LET a == [g EXCEPT !.textArena = @ \o encResult.bytes]
                      IN IF Len(a.textArena) >= w.lims.maxTextRunBytes
                         THEN call("emitError", [a EXCEPT !.flags = @ \cup {"Ended"}], <<
                                "out", "LimitExceeded", "Fatal",
                                Msg("Text run exceeds limit"), 23 >>)
                         ELSE call("scanTextLoop", a, << >>)

scanText(w) ==
    LET p == call("peekCp", w, << >>) IN
    IF p.ret = ChLT THEN [p EXCEPT !.state = "TagOpen", !.ret = FALSE]
    ELSE IF p.ret < 0 THEN [p EXCEPT !.ret = FALSE]
    ELSE call("scanTextLoop", call("markTokenStart", [p EXCEPT !.textArena = <<>>], << >>), << >>)

RECURSIVE skipXMLSpace(_)
skipXMLSpace(w) ==
    LET p == call("peekCp", w, << >>) IN
    IF p.ret < 0 \/ ~isXMLWhitespace(p.ret) THEN p
    ELSE call("skipXMLSpace", call("getCp", p, << >>), << >>)


\* the current frame with fields replaced
setTop(w, frame) == [w EXCEPT !.tagStack[Len(w.tagStack)] = frame]

\* need <= (ByteLen)(cap - used) in 32-bit unsigned arithmetic: when
\* used > cap the difference wraps to 2^32 - (used - cap), and need is at most
\* that whenever need + (used - cap) <= 2^32, which holds for all operands
\* of the model (capacities are clamped to 2^24).
fitsFree(need, cap, used) ==
    IF used <= cap THEN need <= cap - used ELSE TRUE

\* `need <= cap - used`, then growth.  The sums below stay under 2^32
\* because cap <= AbsMaxPerTagBytes.  alloc of a block: heap gets one more
\* entry; w.oom says that `new char[]` throws std::bad_alloc in this call.
ensureCurrentTagCapacity(w, need) ==
    IF w.tagStack = <<>> THEN [w EXCEPT !.ret = FALSE]
    ELSE
      LET frame == Last(w.tagStack) IN
      IF fitsFree(need, frame.cap, frame.used)
      THEN [w EXCEPT !.ret = TRUE]
      ELSE IF need > w.lims.maxPerTagBytes
      THEN [w EXCEPT !.flags = @ \cup {"Ended"}, !.ret = FALSE]
      ELSE
        LET newCap0 == IF frame.cap # 0 THEN frame.cap * 2 ELSE 256
            newCap1 == IF newCap0 < frame.used + need
                       THEN frame.used + need ELSE newCap0
            newCap == IF newCap1 > w.lims.maxPerTagBytes
                      THEN w.lims.maxPerTagBytes ELSE newCap1
        IN IF w.tagBufFreelist # <<>> /\ w.freelistBlockSize = newCap
           THEN \* unique_ptr move-assignment: the old block is deleted
                LET w1 == [w EXCEPT !.heap = release(@, frame.mem),
                                    !.tagBufFreelist = Front(@)]
                IN [setTop(w1, [frame EXCEPT !.mem = Last(w.tagBufFreelist),
                                             !.cap = newCap])
                      EXCEPT !.ret = TRUE]
           ELSE IF w.oom
           THEN [w EXCEPT !.flags = @ \cup {"Ended"}, !.ret = FALSE]
           ELSE LET newMem == Len(w.heap) + 1
                    old == IF frame.mem # 0 THEN w.heap[frame.mem].bytes
                           ELSE <<>>
                    copied == IF frame.mem # 0
                              THEN [i \in 1..frame.used |->
                                      IF i <= Len(old) THEN old[i] ELSE -1]
                              ELSE <<>>
                    hp == Append(w.heap, [cap |-> newCap, live |-> TRUE,
                                          bytes |-> copied])
                    w1 == [w EXCEPT !.heap = release(hp, frame.mem)]
                IN [setTop(w1, [frame EXCEPT !.mem = newMem, !.cap = newCap])
                      EXCEPT !.ret = TRUE]

\* memcpy past the end of the block is undefined behaviour (w.oob); the
\* bytes land behind the block
appendToCurrentTagBuf(w, data) ==
    IF w.tagStack = <<>> THEN [w EXCEPT !.ret = kBadOff]
    ELSE
      LET e == call("ensureCurrentTagCapacity", w, << Len(data) >>) IN
      IF ~e.ret THEN [e EXCEPT !.ret = kBadOff]
      ELSE
        LET frame == Last(e.tagStack)
            off == frame.used
            w1 == IF Len(data) = 0 \/ frame.mem = 0 THEN e
                  ELSE [e EXCEPT !.heap[frame.mem].bytes =
                                     writeBytes(@, off, data),
                                 !.oob = @ \/ (off + Len(data) > frame.cap)]
        IN [setTop(w1, [frame EXCEPT !.used = @ + Len(data)])
              EXCEPT !.ret = off]

\* emitDocumentStart without flags_.set(Started)
emitDocumentStart_noStarted(w) ==
    LET pos == call("currentPosition", w, << >>)
        tok == [type |-> "DocumentStart", data |-> NullPtr, length |-> 0,
                byteOffset |-> pos.byteOffset, line |-> pos.line,
                column |-> pos.column]
    IN [call("deliver", w, << "out", tok, 0, "None", "None" >>)
          EXCEPT !.pendingStartValid = FALSE, !.ret = TRUE]

emitDocumentStart(w) ==
    IF "Started" \in w.flags
    THEN call("emitError", w, << "out", "DuplicateDocumentBoundary", "Fatal",
                   Msg("DocumentStart already emitted"),
                   strlen("DocumentStart already emitted") >>)
    ELSE
      LET w1 == [w EXCEPT !.flags = @ \cup {"Started"}]
          pos == call("currentPosition", w1, << >>)
          tok == [type |-> "DocumentStart", data |-> NullPtr, length |-> 0,
                  byteOffset |-> pos.byteOffset, line |-> pos.line,
                  column |-> pos.column]
      IN [call("deliver", w1, << "out", tok, 0, "None", "None" >>)
            EXCEPT !.pendingStartValid = FALSE, !.ret = TRUE]

\* emitDocumentEnd without flags_.set(Ended) on the DocumentEnd path
emitDocumentEnd_noEnded(w) ==
    IF "Ended" \in w.flags THEN [w EXCEPT !.ret = FALSE]
    ELSE IF w.tagStack # <<>>
    THEN call("emitError", [w EXCEPT !.flags = @ \cup {"Ended"}],
              << "out", "UnexpectedEOF", "Fatal",
                 Msg("Unclosed tag at end of document"),
                 strlen("Unclosed tag at end of document") >>)
    ELSE
      LET pos == call("currentPosition", w, << >>)
          tok == [type |-> "DocumentEnd", data |-> NullPtr, length |-> 0,
                  byteOffset |-> pos.byteOffset, line |-> pos.line,
                  column |-> pos.column]
      IN [call("deliver", w, << "out", tok, 0, "None", "None" >>)
            EXCEPT !.pendingStartValid = FALSE, !.ret = TRUE]

\* emitDocumentEnd without the check for unclosed tags
emitDocumentEnd_noStackCheck(w) ==
    IF "Ended" \in w.flags THEN [w EXCEPT !.ret = FALSE]
    ELSE
      LET w1 == [w EXCEPT !.flags = @ \cup {"Ended"}]
          pos == call("currentPosition", w1, << >>)
          tok == [type |-> "DocumentEnd", data |-> NullPtr, length |-> 0,
                  byteOffset |-> pos.byteOffset, line |-> pos.line,
                  column |-> pos.column]
      IN [call("deliver", w1, << "out", tok, 0, "None", "None" >>)
            EXCEPT !.pendingStartValid = FALSE, !.ret = TRUE]

emitDocumentEnd(w) ==
    IF "Ended" \in w.flags THEN [w EXCEPT !.ret = FALSE]
    ELSE IF w.tagStack # <<>>
    THEN call("emitError", [w EXCEPT !.flags = @ \cup {"Ended"}], << "out",
                   "UnexpectedEOF", "Fatal",
                   Msg("Unclosed tag at end of document"),
                   strlen("Unclosed tag at end of document") >>)
    ELSE
      LET w1 == [w EXCEPT !.flags = @ \cup {"Ended"}]
          pos == call("currentPosition", w1, << >>)
          tok == [type |-> "DocumentEnd", data |-> NullPtr, length |-> 0,
                  byteOffset |-> pos.byteOffset, line |-> pos.line,
                  column |-> pos.column]
      IN [call("deliver", w1, << "out", tok, 0, "None", "None" >>)
            EXCEPT !.pendingStartValid = FALSE, !.ret = TRUE]

\* ensureCurrentTagBuffer that allocates one byte less than frame.buf.cap says
ensureCurrentTagBuffer_short(w) ==
    IF w.tagStack = <<>> THEN [w EXCEPT !.ret = FALSE]
    ELSE IF w.lims.maxPerTagBytes = 0
    THEN [w EXCEPT !.flags = @ \cup {"Ended"}, !.ret = FALSE]
    ELSE
      LET frame == Last(w.tagStack) IN
      IF frame.mem # 0 THEN [w EXCEPT !.ret = TRUE]
      ELSE IF w.tagBufFreelist # <<>>
      THEN [setTop([w EXCEPT !.tagBufFreelist = Front(@)],
                   [frame EXCEPT !.mem = Last(w.tagBufFreelist),
                                 !.cap = w.lims.maxPerTagBytes,
                                 !.used = 0])
              EXCEPT !.ret = TRUE]
      ELSE IF w.oom
      THEN [w EXCEPT !.flags = @ \cup {"Ended"}, !.ret = FALSE]
      ELSE [setTop([w EXCEPT !.heap = Append(@,
                                [cap |-> w.lims.maxPerTagBytes - 1,
                                 live |-> TRUE, bytes |-> <<>>])],
                   [frame EXCEPT !.mem = Len(w.heap) + 1,
                                 !.cap = w.lims.maxPerTagBytes,
                                 !.used = 0])
              EXCEPT !.ret = TRUE]

ensureCurrentTagBuffer(w) ==
    IF w.tagStack = <<>> THEN [w EXCEPT !.ret = FALSE]
    ELSE IF w.lims.maxPerTagBytes = 0
    THEN [w EXCEPT !.flags = @ \cup {"Ended"}, !.ret = FALSE]
    ELSE
      LET frame == Last(w.tagStack) IN
      IF frame.mem # 0 THEN [w EXCEPT !.ret = TRUE]
      ELSE IF w.tagBufFreelist # <<>>
      THEN [setTop([w EXCEPT !.tagBufFreelist = Front(@)],
                   [frame EXCEPT !.mem = Last(w.tagBufFreelist),
                                 !.cap = w.lims.maxPerTagBytes,
                                 !.used = 0])
              EXCEPT !.ret = TRUE]
      ELSE IF w.oom
      THEN [w EXCEPT !.flags = @ \cup {"Ended"}, !.ret = FALSE]
      ELSE [setTop([w EXCEPT !.heap = Append(@,
                                [cap |-> w.lims.maxPerTagBytes,
                                 live |-> TRUE, bytes |-> <<>>])],
                   [frame EXCEPT !.mem = Len(w.heap) + 1,
                                 !.cap = w.lims.maxPerTagBytes,
                                 !.used = 0])
              EXCEPT !.ret = TRUE]

\* TagFrame{} with startPos; eid numbers the elements opened in this run
TagFrame(pos, eid) ==
    [mem |-> 0, cap |-> 0, used |-> 0, nameOff |-> 0, nameLen |-> 0,
     attrCount |-> 0, startPos |-> pos, eid |-> eid]

\* pushTagFrame with the depth test `>` in place of `>=`
pushTagFrame_offByOne(w) ==
    IF Len(w.tagStack) > w.lims.maxOpenDepth
    THEN [w EXCEPT !.flags = @ \cup {"Ended"}, !.depthHit = TRUE,
                   !.ret = FALSE]
    ELSE [w EXCEPT !.tagStack = Append(@,
                       TagFrame(call("currentPosition", w, << >>),
                                w.elemCtr + 1)),
                   !.elemCtr = @ + 1,
                   !.ret = TRUE]

pushTagFrame(w) ==
    IF Len(w.tagStack) >= w.lims.maxOpenDepth
    THEN [call("emitError", [w EXCEPT !.flags = @ \cup {"Ended"},
                              !.depthHit = TRUE], <<
                    "dummy", "LimitExceeded", "Fatal",
                    Msg("Maximum tag nesting depth exceeded"),
                    strlen("Maximum tag nesting depth exceeded") >>)
            EXCEPT !.ret = FALSE]
    ELSE [w EXCEPT !.tagStack = Append(@, TagFrame(call("currentPosition", w, << >>),
                                                   w.elemCtr + 1)),
                   !.elemCtr = @ + 1,
                   !.ret = TRUE]

\* popTagFrame that releases the buffer and leaves the frame on the stack
popTagFrame_keepsFrame(w) ==
    IF w.tagStack = <<>> THEN w
    ELSE
      LET frame == Last(w.tagStack)
      IN [setTop(w, [frame EXCEPT !.mem = 0, !.cap = 0, !.used = 0])
            EXCEPT !.closed = @ \cup {frame.eid},
                   !.heap = release(@, frame.mem)]

popTagFrame(w) ==
    IF w.tagStack = <<>> THEN w
    ELSE
      LET frame == Last(w.tagStack)
          w1 == [w EXCEPT !.tagStack = Front(@),
                          !.closed = @ \cup {frame.eid}]
          maxFreelistSize ==
              Max(4, kFreelistMemoryBudget \div Max(1, w.lims.maxPerTagBytes))
      IN IF frame.mem # 0 /\ frame.cap = w.lims.maxPerTagBytes
            /\ Len(w1.tagBufFreelist) < maxFreelistSize
         THEN [w1 EXCEPT !.tagBufFreelist = Append(@, frame.mem)]
         ELSE [w1 EXCEPT !.heap = release(@, frame.mem)]

\* makeTagToken that reports the frame's startPos, not the pending start
makeTagToken_frameStart(w, type, offset, length) ==
    LET where == IF w.tagStack # <<>> THEN Last(w.tagStack).startPos
                 ELSE call("currentPosition", w, << >>)
        w1 == [w EXCEPT !.pendingStartValid = FALSE]
        data == IF length # 0 /\ w.tagStack # <<>> /\ Last(w.tagStack).mem # 0
                THEN TagPtr(Last(w.tagStack).mem, offset)
                ELSE NullPtr
        tok == [type |-> type, data |-> data, length |-> length,
                byteOffset |-> where.byteOffset, line |-> where.line,
                column |-> where.column]
        eid == IF w.tagStack # <<>> THEN Last(w.tagStack).eid ELSE 0
    IN [call("deliver", w1, << "out", tok, eid, "None", "None" >>)
          EXCEPT !.ret = TRUE]

makeTagToken(w, type, offset, length) ==
    LET where == IF w.pendingStartValid THEN w.pendingStart
                 ELSE call("currentPosition", w, << >>)
        w1 == [w EXCEPT !.pendingStartValid = FALSE]
        data == IF length # 0 /\ w.tagStack # <<>> /\ Last(w.tagStack).mem # 0
                THEN TagPtr(Last(w.tagStack).mem, offset)
                ELSE NullPtr
        tok == [type |-> type, data |-> data, length |-> length,
                byteOffset |-> where.byteOffset, line |-> where.line,
                column |-> where.column]
        eid == IF w.tagStack # <<>> THEN Last(w.tagStack).eid ELSE 0
    IN [call("deliver", w1, << "out", tok, eid, "None", "None" >>) EXCEPT !.ret = TRUE]

\* namePtr is the address mem + nameOff in the current frame's block
validateEndTagMatch(w, nameOff, nameLen) ==
    IF w.tagStack = <<>> THEN FALSE
    ELSE LET frame == Last(w.tagStack) IN
         IF nameLen # frame.nameLen THEN FALSE
         ELSE IF nameLen = 0 THEN TRUE
         ELSE IF frame.mem = 0 THEN FALSE
         ELSE LET b == w.heap[frame.mem].bytes
                  at(i) == IF i <= Len(b) THEN b[i] ELSE -1
              IN \A i \in 1..nameLen :
                     at(nameOff + i) = at(frame.nameOff + i)

\* XMLTokenizer::reset(): frames are visited from the bottom of the stack
RECURSIVE resetFrames(_, _)
resetFrames(w, i) ==
    IF i > Len(w.tagStack) THEN [w EXCEPT !.tagStack = <<>>]
    ELSE LET frame == w.tagStack[i] IN
         call("resetFrames", IF frame.mem # 0 /\ frame.cap = w.lims.maxPerTagBytes
           THEN [w EXCEPT !.tagBufFreelist = Append(@, frame.mem)]
           ELSE [w EXCEPT !.heap = release(@, frame.mem)], <<
           i + 1 >>)

RECURSIVE releaseAll(_, _)
releaseAll(hp, blocks) ==
    IF blocks = <<>> THEN hp
    ELSE releaseAll(release(hp, blocks[1]), Tail(blocks))

\* reset() that leaves flags_ as it is
reset_keepsFlags(w) ==
    LET w1 == [w EXCEPT !.state = "Content",
                        !.errors = <<>>,
                        !.errorArena = [@ EXCEPT !.size = 0, !.segs = <<>>]]
        w2 == call("resetFrames", w1, << 1 >>)
        w3 == IF w2.freelistBlockSize # w2.lims.maxPerTagBytes
              THEN [w2 EXCEPT !.heap = releaseAll(@, w2.tagBufFreelist),
                              !.tagBufFreelist = <<>>,
                              !.freelistBlockSize = w2.lims.maxPerTagBytes]
              ELSE w2
    IN [w3 EXCEPT !.textArena = <<>>,
                  !.pendingStart = SourcePosition0,
                  !.pendingStartValid = FALSE]

reset(w) ==
    LET w1 == [w EXCEPT !.state = "Content", !.flags = {},
                        !.errors = <<>>,
                        !.errorArena = [@ EXCEPT !.size = 0, !.segs = <<>>]]
        w2 == call("resetFrames", w1, << 1 >>)
        w3 == IF w2.freelistBlockSize # w2.lims.maxPerTagBytes
              THEN [w2 EXCEPT !.heap = releaseAll(@, w2.tagBufFreelist),
                              !.tagBufFreelist = <<>>,
                              !.freelistBlockSize = w2.lims.maxPerTagBytes]
              ELSE w2
    IN [w3 EXCEPT !.textArena = <<>>,
                  !.pendingStart = SourcePosition0,
                  !.pendingStartValid = FALSE]

\* clearErrors that also clears the text arena
clearErrors_clearsText(w) == [w EXCEPT !.errors = <<>>, !.textArena = <<>>]

clearErrors(w) == [w EXCEPT !.errors = <<>>]

nestingDepth(w) == Len(w.tagStack)

\* XMLTokenizer::XMLTokenizer(in, opts, lims): the limits after clamping
clampLimits(lims) ==
    [lims EXCEPT !.maxNameBytes = clampBL(@, AbsMaxNameBytes),
                 !.maxAttrValueBytes = clampBL(@, AbsMaxAttrValueBytes),
                 !.maxTextRunBytes = clampBL(@, AbsMaxTextRunBytes),
                 !.maxPerTagBytes = clampBL(@, AbsMaxPerTagBytes)]

(***************************************************************************)
(* The trampoline and the tag scanners (nextToken, scanTagOrError,         *)
(* parseStartTag, parseAttributesBasic, parseEndTag,                       *)
(* readNameToCurrentTagBuffer), after the specification's section 4.4.     *)
(***************************************************************************)
\* the error of a fatal condition recorded as Recoverable
fatal_asRecoverable(w, code, text, len) ==
    call("emitError", w, << "out", code, "Recoverable", Msg(text), len >>)

fatal(w, code, text, len) == call("emitError", w, << "out", code, "Fatal", Msg(text), len >>)

RECURSIVE readNameLoop(_, _, _)
readNameLoop(w, off, len) ==
    LET p == call("peekCp", w, << >>)
        cp == p.ret
    IN IF cp < 0 \/ ~isNameChar(cp) THEN [p EXCEPT !.ret = << off, len >>]
       ELSE LET g == call("getCp", p, << >>)
                enc == encode(cp, 4)
            IN IF enc.status # "Ok" \/ len + enc.width > w.lims.maxNameBytes
               THEN [g EXCEPT !.ret = << 0, 0 >>]
               ELSE LET a == call("appendToCurrentTagBuf", g, << enc.bytes >>) IN
                    IF a.ret = kBadOff THEN [a EXCEPT !.ret = << 0, 0 >>]
                    ELSE call("readNameLoop",
                              [a EXCEPT !.scanned = @ \o enc.bytes],
                              << off, len + enc.width >>)

\* returns (off, len), len = 0 on failure
readNameToCurrentTagBuffer(w) ==
    LET e == call("ensureCurrentTagBuffer", w, << >>) IN
    IF ~e.ret THEN [e EXCEPT !.ret = << 0, 0 >>]
    ELSE LET p == call("peekCp", e, << >>) IN
         IF p.ret < 0 \/ ~isNameStart(p.ret) THEN [p EXCEPT !.ret = << 0, 0 >>]
         ELSE call("readNameLoop", p, << Last(p.tagStack).used, 0 >>)

\* scanTagOrError without the end-of-input case: the peeked -1 is reported
\* as an invalid character
scanTagOrError_noEOFCase(w) ==
    LET g == call("getCp", call("markTokenStart", w, << >>), << >>)
        p == call("peekCp", g, << >>)
        c == p.ret
        r == IF c = ChSlash
             THEN [call("getCp", p, << >>) EXCEPT !.state = "EndTagName", !.ret = FALSE]
             ELSE IF c >= 0 /\ isNameStart(c)
             THEN [p EXCEPT !.state = "StartTagName", !.ret = FALSE]
             ELSE call("fatal", p, << "InvalidCharAfterLT", "Invalid character after '<'", 28 >>)
    IN [r EXCEPT !.ltSeen = TRUE, !.ltNext = c]

\* state TagOpen
scanTagOrError(w) ==
    LET g == call("getCp", call("markTokenStart", w, << >>), << >>)
        p == call("peekCp", g, << >>)
        c == p.ret
        r == IF c = ChSlash
             THEN [call("getCp", p, << >>) EXCEPT !.state = "EndTagName", !.ret = FALSE]
             ELSE IF c >= 0 /\ isNameStart(c)
             THEN [p EXCEPT !.state = "StartTagName", !.ret = FALSE]
             ELSE IF c < 0
             THEN call("fatal", p, << "UnexpectedEOF", "Unexpected EOF after '<'", 24 >>)
             ELSE call("fatal", p, << "InvalidCharAfterLT", "Invalid character after '<'", 28 >>)
    IN [r EXCEPT !.ltSeen = TRUE, !.ltNext = c]

\* states StartTagName and InTag
parseStartTag(w) ==
    IF w.state = "StartTagName"
    THEN LET p == call("pushTagFrame", w, << >>) IN
         IF ~p.ret THEN [p EXCEPT !.ret = TRUE]
         ELSE LET r == call("readNameToCurrentTagBuffer", p, << >>) IN
              IF r.ret[2] = 0
              THEN call("fatal", r, << "LimitExceeded", "Tag name exceeds limit", 22 >>)
              ELSE LET f == Last(r.tagStack)
                       w1 == setTop(r, [f EXCEPT !.nameOff = r.ret[1],
                                                 !.nameLen = r.ret[2]])
                   IN [call("makeTagToken", w1, << "StartTag", r.ret[1], r.ret[2] >>)
                         EXCEPT !.state = "InTag"]
    ELSE LET p == call("peekCp", call("skipXMLSpace", w, << >>), << >>)
             c == p.ret
         IN IF c = ChGT
            THEN [call("getCp", p, << >>) EXCEPT !.state = "Content", !.ret = FALSE]
            ELSE IF c = ChSlash
            THEN LET q == call("peekCp", call("getCp", call("markTokenStart", p, << >>), << >>), << >>) IN
                 IF q.ret = ChGT
                 THEN LET f == Last(q.tagStack)
                          t == call("makeTagToken", call("getCp", q, << >>), << "EmptyTag",
                                            f.nameOff, f.nameLen >>)
                      IN [call("popTagFrame", t, << >>) EXCEPT !.state = "Content",
                                                !.ret = TRUE]
                 ELSE call("fatal", q, << "UnterminatedTag", "Unterminated tag", 16 >>)
            ELSE IF c >= 0 /\ isNameStart(c)
            THEN [p EXCEPT !.state = "AttrName", !.ret = FALSE]
            ELSE call("fatal", p, << "UnterminatedTag", "Unterminated tag", 16 >>)

RECURSIVE readAttrValueLoop(_, _, _)
readAttrValueLoop(w, off, len) ==
    LET p == call("peekCp", w, << >>)
        cp == p.ret
    IN IF cp < 0
       THEN call("fatal", p, << "UnterminatedTag", "Unterminated attribute value", 28 >>)
       ELSE IF cp = ChQuote
       THEN [call("makeTagToken", call("getCp", p, << >>), << "AttributeValue", off, len >>)
               EXCEPT !.state = "InTag"]
       ELSE LET g == call("getCp", p, << >>)
                enc == encode(cp, 4)
            IN IF enc.status # "Ok"
                  \/ len + enc.width > w.lims.maxAttrValueBytes
               THEN call("fatal", g, << "LimitExceeded",
                          "Attribute value exceeds limit", 29 >>)
               ELSE LET a == call("appendToCurrentTagBuf", g, << enc.bytes >>) IN
                    IF a.ret = kBadOff
                    THEN call("fatal", a, << "LimitExceeded",
                               "Tag exceeds per-tag limit", 25 >>)
                    ELSE call("readAttrValueLoop", a, << off, len + enc.width >>)

\* states AttrName, AfterAttrName, BeforeAttrValue and AttrValueQuoted
parseAttributesBasic(w) ==
    CASE w.state = "AttrName" ->
           LET f == Last(w.tagStack) IN
           IF f.attrCount + 1 > w.lims.maxAttrsPerElement
           THEN call("fatal", w, << "LimitExceeded", "Too many attributes", 19 >>)
           ELSE LET w1 == call("markTokenStart", setTop(w, [f EXCEPT !.attrCount = @ + 1]), << >>)
                    r == call("readNameToCurrentTagBuffer", w1, << >>)
                IN IF r.ret[2] = 0
                   THEN call("fatal", r, << "LimitExceeded",
                              "Attribute name exceeds limit", 28 >>)
                   ELSE [call("makeTagToken", r, << "AttributeName", r.ret[1], r.ret[2] >>)
                           EXCEPT !.state = "AfterAttrName"]
      [] w.state = "AfterAttrName" ->
           LET p == call("peekCp", call("skipXMLSpace", w, << >>), << >>) IN
           IF p.ret = ChEq
           THEN [call("getCp", p, << >>) EXCEPT !.state = "BeforeAttrValue", !.ret = FALSE]
           ELSE call("fatal", p, << "ExpectedEqualsAfterAttrName",
                      "Expected '=' after attribute name", 33 >>)
      [] w.state = "BeforeAttrValue" ->
           LET p == call("peekCp", call("skipXMLSpace", w, << >>), << >>) IN
           IF p.ret = ChQuote
           THEN [call("getCp", call("markTokenStart", p, << >>), << >>)
                   EXCEPT !.state = "AttrValueQuoted", !.ret = FALSE]
           ELSE call("fatal", p, << "ExpectedQuoteForAttrValue",
                      "Expected quote for attribute value", 34 >>)
      [] OTHER ->
           call("readAttrValueLoop", w, << Last(w.tagStack).used, 0 >>)

\* state EndTagName
parseEndTag(w0) ==
    LET w == [w0 EXCEPT !.endTag = TRUE] IN
    IF w.tagStack = <<>>
    THEN call("fatal", w, << "UnterminatedTag", "End tag mismatch", 16 >>)
    ELSE
      LET r == call("readNameToCurrentTagBuffer", w, << >>) IN
      IF r.ret[2] = 0
      THEN IF "Ended" \in r.flags
           THEN call("fatal", r, << "LimitExceeded", "Tag exceeds per-tag limit", 25 >>)
           ELSE call("fatal", r, << "UnterminatedTag", "End tag mismatch", 16 >>)
      ELSE
        LET p == call("peekCp", call("skipXMLSpace", r, << >>), << >>) IN
        IF p.ret # ChGT
        THEN call("fatal", p, << "UnterminatedTag", "Unterminated tag", 16 >>)
        ELSE LET g == call("getCp", p, << >>) IN
             IF ~call("validateEndTagMatch", g, << r.ret[1], r.ret[2] >>)
             THEN call("fatal", g, << "UnterminatedTag", "End tag mismatch", 16 >>)
             ELSE [call("popTagFrame", call("makeTagToken", g, << "EndTag", r.ret[1], r.ret[2] >>), << >>)
                     EXCEPT !.state = "Content", !.ret = TRUE]

\* w.hops is an observation: the scanners this call has dispatched to
RECURSIVE trampoline(_)
trampoline(w0) ==
    LET w == [w0 EXCEPT !.hops = @ + 1]
        r == CASE w.state = "Content" -> call("scanText", w, << >>)
               [] w.state = "TagOpen" -> call("scanTagOrError", w, << >>)
               [] w.state \in {"StartTagName", "InTag"} -> call("parseStartTag", w, << >>)
               [] w.state = "EndTagName" -> call("parseEndTag", w, << >>)
               [] OTHER -> call("parseAttributesBasic", w, << >>)
    IN IF r.ret = TRUE THEN r
       ELSE IF w.state = "Content" /\ r.state = "Content"
       THEN call("emitDocumentEnd", r, << >>)
       ELSE call("trampoline", r, << >>)

nextToken(w) ==
    IF "Ended" \in w.flags THEN [w EXCEPT !.ret = FALSE]
    ELSE IF "Started" \notin w.flags THEN call("emitDocumentStart", w, << >>)
    ELSE call("trampoline", w, << >>)


\* dispatch(f, x, a) is the body of the function named f applied to x and
\* the arguments a[1], ..., a[n]
dispatch(f, x, a) ==
    CASE f = "streamRead" -> streamRead(x, a[1], a[2])
      [] f = "fillBuffer" -> fillBuffer(x)
      [] f = "detectEncoding" -> detectEncoding(x)
      [] f = "ensureData" -> ensureData(x, a[1])
      [] f = "advanceLoop" -> advanceLoop(x, a[1], a[2])
      [] f = "advance" -> advance(x, a[1])
      [] f = "getCharCont" -> getCharCont(x, a[1], a[2], a[3])
      [] f = "getChar" -> getChar(x)
      [] f = "peekChar" -> peekChar(x)
      [] f = "encode" -> encode(x, a[1])
      [] f = "decode" -> decode(x, a[1])
      [] f = "ensureAtLeast" -> ensureAtLeast(x, a[1])
      [] f = "decodeAtPos" -> decodeAtPos(x)
      [] f = "readWhileInner" -> readWhileInner(x, a[1])
      [] f = "readWhileOuter" -> readWhileOuter(x, a[1])
      [] f = "readWhile" -> readWhile(x, a[1])
      [] f = "currentPosition" -> currentPosition(x)
      [] f = "markTokenStart" -> markTokenStart(x)
      [] f = "getCp" -> getCp(x)
      [] f = "peekCp" -> peekCp(x)
      [] f = "deliver" -> deliver(x, a[1], a[2], a[3], a[4], a[5])
      [] f = "internError" -> internError(x, a[1], a[2])
      [] f = "emitError" -> emitError(x, a[1], a[2], a[3], a[4], a[5])
      [] f = "makeTextToken" -> makeTextToken(x, a[1], a[2])
      [] f = "scanTextLoop" -> scanTextLoop(x)
      [] f = "scanText" -> scanText(x)
      [] f = "skipXMLSpace" -> skipXMLSpace(x)
      [] f = "ensureCurrentTagCapacity" -> ensureCurrentTagCapacity(x, a[1])
      [] f = "appendToCurrentTagBuf" -> appendToCurrentTagBuf(x, a[1])
      [] f = "emitDocumentStart" -> emitDocumentStart(x)
      [] f = "emitDocumentEnd" -> emitDocumentEnd(x)
      [] f = "ensureCurrentTagBuffer" -> ensureCurrentTagBuffer(x)
      [] f = "pushTagFrame" -> pushTagFrame(x)
      [] f = "popTagFrame" -> popTagFrame(x)
      [] f = "makeTagToken" -> makeTagToken(x, a[1], a[2], a[3])
      [] f = "validateEndTagMatch" -> validateEndTagMatch(x, a[1], a[2])
      [] f = "resetFrames" -> resetFrames(x, a[1])
      [] f = "reset" -> reset(x)
      [] f = "clearErrors" -> clearErrors(x)
      [] f = "fatal" -> fatal(x, a[1], a[2], a[3])
      [] f = "readNameLoop" -> readNameLoop(x, a[1], a[2])
      [] f = "readNameToCurrentTagBuffer" -> readNameToCurrentTagBuffer(x)
      [] f = "scanTagOrError" -> scanTagOrError(x)
      [] f = "parseStartTag" -> parseStartTag(x)
      [] f = "readAttrValueLoop" -> readAttrValueLoop(x, a[1], a[2])
      [] f = "parseAttributesBasic" -> parseAttributesBasic(x)
      [] f = "parseEndTag" -> parseEndTag(x)
      [] f = "trampoline" -> trampoline(x)
      [] f = "nextToken" -> nextToken(x)

\* call(f, x, a) is the call f(x, a[1], ..., a[n]) of the function named f:
\* the object and the arguments are evaluated once, before the body runs
call(f, x, a) ==
    CHOOSE r \in {dispatch(f, xv, av) : xv \in {x}, av \in {a}} : TRUE

(***************************************************************************)
(* The documents and configurations the tokenizer is run on.               *)
(***************************************************************************)
DefaultLimits ==                           \* TokenizerLimits{}
    [maxNameBytes |-> 4096, maxAttrValueBytes |-> 1048576,
     maxTextRunBytes |-> 8388608, maxAttrsPerElement |-> 1024,
     maxPerTagBytes |-> 8388608, maxOpenDepth |-> 1024]

ShortAlphabet == {ChLT, ChGT, ChSlash, 97}         \* < > / a

ShortInputs == UNION {[1..k -> ShortAlphabet] : k \in 0..MaxInputLen}

Documents ==
    {
      \* <a x="1"><b>hi</b></a>
      [input |-> << 60, 97, 32, 120, 61, 34, 49, 34, 62, 60, 98, 62, 104, 105, 60, 47, 98, 62, 60, 47, 97, 62 >>,
       lims |-> DefaultLimits, normalize |-> TRUE],
      \* <a>x</a>
      [input |-> << 60, 97, 62, 120, 60, 47, 97, 62 >>,
       lims |-> DefaultLimits, normalize |-> TRUE],
      \* <a>
      [input |-> << 60, 97, 62 >>,
       lims |-> DefaultLimits, normalize |-> TRUE],
      \* <a/>
      [input |-> << 60, 97, 47, 62 >>,
       lims |-> DefaultLimits, normalize |-> TRUE],
      \* </a>
      [input |-> << 60, 47, 97, 62 >>,
       lims |-> DefaultLimits, normalize |-> TRUE],
      \* <a><a/></a><b c=""></a>
      [input |-> << 60, 97, 62, 60, 97, 47, 62, 60, 47, 97, 62,
                    60, 98, 32, 99, 61, 34, 34, 62, 60, 47, 97, 62 >>,
       lims |-> [DefaultLimits EXCEPT !.maxPerTagBytes = 2], normalize |-> TRUE],
      \* <1>
      [input |-> << 60, 49, 62 >>,
       lims |-> DefaultLimits, normalize |-> TRUE],
      \* <a><?
      [input |-> << 60, 97, 62, 60, 63 >>,
       lims |-> DefaultLimits, normalize |-> TRUE],
      \* <a b="x CR LF y">
      [input |-> << 60, 97, 32, 98, 61, 34, 120, 13, 10, 121, 34, 62 >>,
       lims |-> DefaultLimits, normalize |-> TRUE],
      \* <a></b>
      [input |-> << 60, 97, 62, 60, 47, 98, 62 >>,
       lims |-> DefaultLimits, normalize |-> TRUE],
      \* <a b="c"/>x
      [input |-> << 60, 97, 32, 98, 61, 34, 99, 34, 47, 62, 120 >>,
       lims |-> DefaultLimits, normalize |-> TRUE],
      \* <a></a><b c="d"/>
      [input |-> << 60, 97, 62, 60, 47, 97, 62, 60, 98, 32, 99, 61, 34, 100, 34, 47, 62 >>,
       lims |-> DefaultLimits, normalize |-> TRUE],
      \* <a x>
      [input |-> << 60, 97, 32, 120, 62 >>,
       lims |-> DefaultLimits, normalize |-> TRUE],
      \* <a x=1>
      [input |-> << 60, 97, 32, 120, 61, 49, 62 >>,
       lims |-> DefaultLimits, normalize |-> TRUE],
      \* <a x="1
      [input |-> << 60, 97, 32, 120, 61, 34, 49 >>,
       lims |-> DefaultLimits, normalize |-> TRUE],
      \* < a>
      [input |-> << 60, 32, 97, 62 >>,
       lims |-> DefaultLimits, normalize |-> TRUE],
      \* <!--
      [input |-> << 60, 33, 45, 45 >>,
       lims |-> DefaultLimits, normalize |-> TRUE],
      \* a\r\nb\rc\n<
      [input |-> << 97, 13, 10, 98, 13, 99, 10, 60 >>,
       lims |-> DefaultLimits, normalize |-> TRUE],
      \* a\r\nb
      [input |-> << 97, 13, 10, 98 >>,
       lims |-> DefaultLimits, normalize |-> FALSE],
      \* é<é/>
      [input |-> << 195, 169, 60, 195, 169, 47, 62 >>,
       lims |-> DefaultLimits, normalize |-> TRUE],
      \* hi\xffx
      [input |-> << 104, 105, 255, 120 >>,
       lims |-> DefaultLimits, normalize |-> TRUE],
      \* \xef\xbb\xbfa<b>
      [input |-> << 239, 187, 191, 97, 60, 98, 62 >>,
       lims |-> DefaultLimits, normalize |-> TRUE],
      \* <a>
      [input |-> << 60, 97, 62 >>,
       lims |-> [DefaultLimits EXCEPT !.maxOpenDepth = 0], normalize |-> TRUE],
      \* <a><a>
      [input |-> << 60, 97, 62, 60, 97, 62 >>,
       lims |-> [DefaultLimits EXCEPT !.maxOpenDepth = 1], normalize |-> TRUE],
      \* <a><b/></a>
      [input |-> << 60, 97, 62, 60, 98, 47, 62, 60, 47, 97, 62 >>,
       lims |-> [DefaultLimits EXCEPT !.maxOpenDepth = 1], normalize |-> TRUE],
      \* <a><b><c/></b></a>
      [input |-> << 60, 97, 62, 60, 98, 62, 60, 99, 47, 62, 60, 47, 98, 62, 60, 47, 97, 62 >>,
       lims |-> [DefaultLimits EXCEPT !.maxOpenDepth = 2], normalize |-> TRUE],
      \* <a>
      [input |-> << 60, 97, 62 >>,
       lims |-> [DefaultLimits EXCEPT !.maxPerTagBytes = 0], normalize |-> TRUE],
      \* <ab>
      [input |-> << 60, 97, 98, 62 >>,
       lims |-> [DefaultLimits EXCEPT !.maxPerTagBytes = 1], normalize |-> TRUE],
      \* <a b="c">
      [input |-> << 60, 97, 32, 98, 61, 34, 99, 34, 62 >>,
       lims |-> [DefaultLimits EXCEPT !.maxPerTagBytes = 2], normalize |-> TRUE],
      \* <a/><b></b >
      [input |-> << 60, 97, 47, 62, 60, 98, 62, 60, 47, 98, 32, 62 >>,
       lims |-> [DefaultLimits EXCEPT !.maxPerTagBytes = 1], normalize |-> TRUE],
      \* <a><b></b><c d="e"/></a>
      [input |-> << 60, 97, 62, 60, 98, 62, 60, 47, 98, 62, 60, 99, 32, 100, 61, 34, 101, 34, 47, 62, 60, 47, 97, 62 >>,
       lims |-> [DefaultLimits EXCEPT !.maxPerTagBytes = 3], normalize |-> TRUE],
      \* <a><a><a><a><a/></a></a></a></a>
      [input |-> << 60, 97, 62, 60, 97, 62, 60, 97, 62, 60, 97, 62, 60, 97, 47, 62, 60, 47, 97, 62, 60, 47, 97, 62, 60, 47, 97, 62, 60, 47, 97, 62 >>,
       lims |-> [DefaultLimits EXCEPT !.maxPerTagBytes = 33554432], normalize |-> TRUE],
      \* abc
      [input |-> << 97, 98, 99 >>,
       lims |-> [DefaultLimits EXCEPT !.maxTextRunBytes = 2], normalize |-> TRUE],
      \* <ab c="de">
      [input |-> << 60, 97, 98, 32, 99, 61, 34, 100, 101, 34, 62 >>,
       lims |-> [DefaultLimits EXCEPT !.maxNameBytes = 1], normalize |-> TRUE],
      \* <a b="cd">
      [input |-> << 60, 97, 32, 98, 61, 34, 99, 100, 34, 62 >>,
       lims |-> [DefaultLimits EXCEPT !.maxAttrValueBytes = 1], normalize |-> TRUE],
      \* <a b="c" d="e">
      [input |-> << 60, 97, 32, 98, 61, 34, 99, 34, 32, 100, 61, 34, 101, 34, 62 >>,
       lims |-> [DefaultLimits EXCEPT !.maxAttrsPerElement = 1], normalize |-> TRUE]
    }

\* character data without '<', all of it valid UTF-8
TextInputs ==
    { << 97, 98 >>,                  \* ab
      << 97, 10, 98 >>,              \* a LF b
      << 13, 10, 98 >>,              \* CR LF b
      << 97, 13, 98 >>,              \* a CR b
      << 195, 169, 97 >>,            \* U+00E9 a
      << 226, 130, 172 >>,           \* U+20AC
      << 239, 187, 191, 97 >> }      \* BOM a

\* character data longer than SmallBufferSize
LongTextInputs ==
    { << 97, 98, 99, 100, 101, 102, 103, 104 >>,   \* abcdefgh
      << 97, 98, 99, 195, 169 >> }                 \* abc U+00E9

TextLimitInputs ==
    { << 97, 98, 99 >>,              \* abc
      << 97, 98, 60, 97, 62 >> }     \* ab<a>

Scenarios ==
    {[input |-> i, lims |-> DefaultLimits, normalize |-> TRUE,
      bufferSize |-> BufferSize] : i \in ShortInputs}
    \cup {[input |-> d.input, lims |-> d.lims, normalize |-> d.normalize,
           bufferSize |-> BufferSize] : d \in Documents}
    \cup {[input |-> t, lims |-> DefaultLimits, normalize |-> n,
           bufferSize |-> BufferSize] : t \in TextInputs, n \in BOOLEAN}
    \cup {[input |-> t, lims |-> DefaultLimits, normalize |-> FALSE,
           bufferSize |-> SmallBufferSize] : t \in LongTextInputs}
    \cup {[input |-> t, lims |-> [DefaultLimits EXCEPT !.maxTextRunBytes = 2],
           normalize |-> TRUE, bufferSize |-> BufferSize] :
              t \in TextLimitInputs}

LongMsg ==
    "xxxxxxxxxxxxxxxxxxxxxxxxxxxxxxxxxxxxxxxxxxxxxxxxxxxxxxxxxxxxxxxxxxxxxxxxxxxxxxxxxxxxxxxxxxxxxxxxxxxxxxxxxxxxxxxxxxxxxxxxxxxxxxxxxxxxxxxxxxxxxxxxxxxxxxxxxxxxxxxxxxxxxxxxxxxxxxxxxxxxxxxxxxxxxxxxxxxxxxxxxxxxxxxxxxxxxxxxxxxxxxxxxxxxxxxxxxxxxxxxxxxxxxxxxx"

\* arguments of direct emitError() calls
ErrArgs ==
    {[code |-> "LimitExceeded", sev |-> "Warning",
      msg |-> Msg(LongMsg), len |-> strlen(LongMsg)],
     [code |-> "InvalidCharAfterLT", sev |-> "Fatal",
      msg |-> NullMsg, len |-> 0],
     [code |-> "ExpectedEqualsAfterAttrName", sev |-> "Recoverable",
      msg |-> Msg("Missing equals"), len |-> 14]}

NoText == [valid |-> FALSE, ptr |-> NullPtr, len |-> 0, snap |-> <<>>]

hist0 ==
    [emitted |-> <<>>, issued |-> <<>>, elemCtr |-> 0, lastOp |-> "init",
     ret |-> FALSE, ntok |-> 0, nerr |-> 0, depthHit |-> FALSE,
     endedBefore |-> FALSE, depthBefore |-> 0, closed |-> {},
     text |-> NoText, resetSinceText |-> FALSE,
     resets |-> 0, errCalls |-> 0, clears |-> 0,
     oob |-> FALSE, crashed |-> FALSE,
     scanned |-> <<>>, endTag |-> FALSE, ltSeen |-> FALSE, ltNext |-> 0, topBefore |-> 0,
     stateBefore |-> "Content", startedBefore |-> FALSE, eofBefore |-> FALSE,
     afterReset |-> FALSE, resetFrom |-> "none",
     fatalRecorded |-> FALSE, marked |-> <<>>, hops |-> 0]

\* one of the records that a call appended to errors() is Fatal; before is
\* errors() before the call, after is errors() after it
AppendsFatal(before, after) ==
    \E i \in (Len(before) + 1)..Len(after) : after[i].sev = "Fatal"

Init ==
    \E sc \in Scenarios :
        /\ in_ = BufferedInputStream(sc.input, sc.bufferSize)
        /\ opts_ = [normalizeLineEndings |-> sc.normalize]
        /\ lims_ = clampLimits(sc.lims)
        /\ state_ = "Content"
        /\ flags_ = {}
        /\ tagStack_ = <<>>
        /\ textArena_ = <<>>
        /\ errors_ = <<>>
        /\ errorArena_ = [blk |-> 0, cap |-> 0, size |-> 0, segs |-> <<>>]
        /\ tagBufFreelist_ = <<>>
        /\ freelistBlockSize_ = clampLimits(sc.lims).maxPerTagBytes
        /\ pendingStart_ = SourcePosition0
        /\ pendingStartValid_ = FALSE
        /\ heap = <<>>
        /\ out = XMLToken0
        /\ moved_ = <<>>
        /\ hist = hist0

World ==
    [in |-> in_, opts |-> opts_, lims |-> lims_, state |-> state_,
     flags |-> flags_, tagStack |-> tagStack_, textArena |-> textArena_,
     errors |-> errors_, errorArena |-> errorArena_,
     tagBufFreelist |-> tagBufFreelist_,
     freelistBlockSize |-> freelistBlockSize_,
     pendingStart |-> pendingStart_, pendingStartValid |-> pendingStartValid_,
     heap |-> heap, out |-> out,
     emitted |-> hist.emitted, issued |-> hist.issued,
     elemCtr |-> hist.elemCtr,
     ret |-> FALSE, oom |-> FALSE, depthHit |-> FALSE, oob |-> FALSE,
     closed |-> {}, scanned |-> <<>>, endTag |-> FALSE, ltSeen |-> FALSE, ltNext |-> 0,
     marked |-> <<>>, hops |-> 0]

Commit(w) ==
    /\ in_' = w.in
    /\ opts_' = w.opts
    /\ lims_' = w.lims
    /\ state_' = w.state
    /\ flags_' = w.flags
    /\ tagStack_' = w.tagStack
    /\ textArena_' = w.textArena
    /\ errors_' = w.errors
    /\ errorArena_' = w.errorArena
    /\ tagBufFreelist_' = w.tagBufFreelist
    /\ freelistBlockSize_' = w.freelistBlockSize
    /\ pendingStart_' = w.pendingStart
    /\ pendingStartValid_' = w.pendingStartValid
    /\ heap' = w.heap
    /\ out' = w.out
    /\ moved_' = moved_

progVars == << in_, opts_, lims_, state_, flags_, tagStack_, textArena_,
               errors_, errorArena_, tagBufFreelist_, freelistBlockSize_,
               pendingStart_, pendingStartValid_, heap, out, moved_ >>

callsLeft == hist.resets + hist.clears + hist.errCalls < MaxCalls

\* tokenizer.nextToken(out).  oom: `new char[]` throws in this call.  When
\* the call ran into undefined behaviour, the process may also die (crash).
NextToken ==
    /\ ~hist.crashed
    /\ \E oom \in BOOLEAN :
       \E w \in {call("nextToken", [World EXCEPT !.oom = oom], << >>)} :
         LET ntok == Len(w.emitted) - Len(hist.emitted)
         IN \E crash \in {FALSE, w.oob \/ w.in.ub} :
               IF crash
               THEN /\ UNCHANGED progVars
                    /\ hist' = [hist EXCEPT !.crashed = TRUE]
               ELSE /\ Commit(w)
                    /\ hist' = [hist EXCEPT
                         !.emitted = w.emitted,
                         !.issued = w.issued,
                         !.elemCtr = w.elemCtr,
                         !.lastOp = "nextToken",
                         !.ret = w.ret,
                         !.ntok = ntok,
                         !.nerr = Len(w.errors) - Len(errors_),
                         !.depthHit = w.depthHit,
                         !.endedBefore = ("Ended" \in flags_),
                         !.depthBefore = Len(tagStack_),
                         !.closed = w.closed,
                         !.scanned = w.scanned,
                         !.endTag = w.endTag,
                         !.ltSeen = w.ltSeen,
                         !.ltNext = w.ltNext,
                         !.topBefore = IF tagStack_ = <<>> THEN 0
                                       ELSE Last(tagStack_).eid,
                         !.afterReset = (hist.lastOp = "reset"),
                         !.resetFrom = IF hist.lastOp = "reset" THEN @
                                       ELSE "none",
                         !.stateBefore = state_,
                         !.startedBefore = ("Started" \in flags_),
                         !.eofBefore = (call("peekCp", World, << >>).ret < 0),
                         !.text = IF ntok = 1
                                     /\ Last(w.emitted).tok.type = "Text"
                                  THEN [valid |-> TRUE,
                                        ptr |-> Last(w.emitted).tok.data,
                                        len |-> Last(w.emitted).tok.length,
                                        snap |-> Last(w.emitted).snap]
                                  ELSE NoText,
                         !.resetSinceText = FALSE,
                         !.fatalRecorded = @ \/ AppendsFatal(errors_, w.errors),
                         !.marked = w.marked,
                         !.hops = w.hops,
                         !.oob = @ \/ w.oob]

\* tokenizer.reset(): a new run on the same stream
Reset ==
    /\ ~hist.crashed
    /\ callsLeft
    /\ Commit(call("reset", World, << >>))
    /\ hist' = [hist EXCEPT !.emitted = <<>>, !.issued = <<>>,
                            !.elemCtr = 0, !.lastOp = "reset",
                            !.closed = {}, !.resetSinceText = TRUE,
                            !.resets = @ + 1, !.afterReset = FALSE,
                            !.fatalRecorded = FALSE,
                            !.resetFrom =
                               IF tagStack_ # <<>> /\ "Ended" \notin flags_
                               THEN "open"
                               ELSE IF "Ended" \in flags_ THEN "ended"
                               ELSE "other"]

\* tokenizer.clearErrors()
ClearErrors ==
    /\ ~hist.crashed
    /\ callsLeft
    /\ Commit(call("clearErrors", World, << >>))
    /\ hist' = [hist EXCEPT !.lastOp = "clearErrors", !.clears = @ + 1,
                            !.afterReset = FALSE, !.resetFrom = "none"]

\* tokenizer.emitError(tok, code, sev, msg, msgLen) called by the user
EmitError ==
    /\ ~hist.crashed
    /\ callsLeft
    /\ \E a \in ErrArgs :
         LET w == call("emitError", World, << "user", a.code, a.sev, a.msg, a.len >>) IN
         /\ Commit(w)
         /\ hist' = [hist EXCEPT !.issued = w.issued,
                                 !.lastOp = "emitError",
                                 !.ret = w.ret,
                                 !.errCalls = @ + 1,
                                 !.fatalRecorded = @ \/ AppendsFatal(errors_, w.errors),
                                 !.marked = w.marked,
                                 !.afterReset = FALSE,
                                 !.resetFrom = "none"]

Next == NextToken \/ Reset \/ ClearErrors \/ EmitError

Spec == Init /\ [][Next]_vars

\* a caller that does nothing but call nextToken(), and does not stop
\* calling while a call can still change anything
LiveNext == NextToken

LiveSpec == Init /\ [][LiveNext]_vars /\ WF_vars(NextToken)


(***************************************************************************)
(* The stream on its own: a BufferedInputStream over a valid UTF-8 input,  *)
(* read by getChar() and peekChar() calls in any order.  The tokenizer's   *)
(* variables are not used.                                                 *)
(***************************************************************************)
MinStreamBuffer == 4

\* a, LF, CR, U+00E9, U+20AC, U+1F600
StreamScalars == {97, LF, CR, 233, 8364, 128512}

RECURSIVE EncodeAll(_)
EncodeAll(cps) ==
    IF cps = <<>> THEN <<>>
    ELSE encode(cps[1], 4).bytes \o EncodeAll(Tail(cps))

StreamInputs ==
    {EncodeAll(cps) :
        cps \in UNION {[1..k -> StreamScalars] : k \in 0..MaxStreamScalars}}

\* EF BB BF, the UTF-8 byte order mark
BOM == << 239, 187, 191 >>

\* inputs that start with a byte order mark
BOMInputs ==
    {BOM \o EncodeAll(cps) :
        cps \in UNION {[1..k -> StreamScalars] : k \in 0..(MaxStreamScalars - 1)}}

\* inputs that are not valid UTF-8: a byte that starts no sequence, a stray
\* continuation byte, a truncated sequence, a bad continuation byte, an
\* overlong form and a surrogate
InvalidInputs ==
    { << 255 >>, << 97, 255, 97 >>, << 97, 128 >>, << 97, 195 >>,
      << 97, 226, 40, 161 >>, << 192, 128 >>, << 237, 160, 128 >> }

\* the values the getChar() calls that follow would return, up to the first
\* negative one; -99 when the call runs into undefined behaviour
RECURSIVE Remaining(_)
Remaining(s) ==
    LET g == call("getChar", s, << >>) IN
    IF g.ub THEN << -99 >>
    ELSE IF g.ch < 0 THEN << g.ch >>
    ELSE << g.ch >> \o Remaining(g)

\* what a caller can observe of the stream
StreamObs(s) ==
    [byteOffset |-> getTotalBytesRead(s), line |-> getCurrentLine(s),
     column |-> getCurrentColumn(s), hasPendingCR |-> s.hasPendingCR,
     rest |-> Remaining(s)]

shist0 ==
    [lastOp |-> "init", ret |-> 0, prevOp |-> "init", prevRet |-> 0,
     got |-> <<>>, done |-> FALSE, peeked |-> FALSE, crashed |-> FALSE,
     peekedBefore |-> FALSE, srcBefore |-> 0,
     req |-> 0,
     before |-> [buffer |-> <<>>, bufferPos |-> 0, bufferEnd |-> 0,
                 srcPos |-> 0],
     out |-> <<>>, hung |-> FALSE, pred |-> [kind |-> "until", d |-> 0],
     pre |-> [byteOffset |-> 0, line |-> 1, column |-> 1,
              hasPendingCR |-> FALSE, rest |-> <<>>]]

StreamInit ==
    \E i \in StreamInputs \cup BOMInputs \cup InvalidInputs,
       b \in MinStreamBuffer..MaxStreamBuffer :
        /\ in_ = BufferedInputStream(i, b)
        /\ opts_ = [normalizeLineEndings |-> TRUE]
        /\ lims_ = clampLimits(DefaultLimits)
        /\ state_ = "Content"
        /\ flags_ = {}
        /\ tagStack_ = <<>>
        /\ textArena_ = <<>>
        /\ errors_ = <<>>
        /\ errorArena_ = [blk |-> 0, cap |-> 0, size |-> 0, segs |-> <<>>]
        /\ tagBufFreelist_ = <<>>
        /\ freelistBlockSize_ = clampLimits(DefaultLimits).maxPerTagBytes
        /\ pendingStart_ = SourcePosition0
        /\ pendingStartValid_ = FALSE
        /\ heap = <<>>
        /\ out = XMLToken0
        /\ moved_ = <<>>
        /\ hist = shist0

tokVars == << opts_, lims_, state_, flags_, tagStack_, textArena_,
              errors_, errorArena_, tagBufFreelist_, freelistBlockSize_,
              pendingStart_, pendingStartValid_, heap, out, moved_ >>

\* the observations after the call op has returned as g
shistAfter(op, g) ==
    [hist EXCEPT
        !.lastOp = op,
        !.ret = g.ch,
        !.prevOp = hist.lastOp,
        !.prevRet = hist.ret,
        !.got = IF op = "getChar" /\ ~hist.done THEN Append(@, g.ch) ELSE @,
        !.done = @ \/ (op = "getChar" /\ g.ch < 0),
        !.peeked = @ \/ (op = "peekChar"),
        !.peekedBefore = hist.peeked,
        !.pre = StreamObs(in_)]

\* stream.getChar(); when the call ran into undefined behaviour the process
\* may die instead of returning
GetChar ==
    /\ ~hist.crashed
    /\ ~hist.hung
    /\ LET g == call("getChar", in_, << >>) IN
       \E crash \in {FALSE, g.ub} :
          IF crash
          THEN /\ UNCHANGED in_
               /\ hist' = [hist EXCEPT !.crashed = TRUE]
          ELSE /\ in_' = g
               /\ hist' = shistAfter("getChar", g)
    /\ UNCHANGED tokVars

\* stream.peekChar()
PeekChar ==
    /\ ~hist.crashed
    /\ LET g == call("peekChar", in_, << >>) IN
       \E crash \in {FALSE, g.ub} :
          IF crash
          THEN /\ UNCHANGED in_
               /\ hist' = [hist EXCEPT !.crashed = TRUE]
          ELSE /\ in_' = g
               /\ hist' = shistAfter("peekChar", g)
    /\ UNCHANGED tokVars

StreamNext == GetChar \/ PeekChar

StreamSpec == StreamInit /\ [][StreamNext]_vars

(***************************************************************************)
(* The stream read by getChar() and readWhile() / readUntil() calls.       *)
(***************************************************************************)
\* readUntil(out, 'a'), readUntil(out, '\n'), and readWhile with a predicate
\* that accepts the letters a, U+00E9 and the line ends
Preds ==
    { [kind |-> "until", d |-> 97], [kind |-> "until", d |-> LF],
      [kind |-> "in", set |-> {97, 233, CR, LF}] }

\* stream.readWhile(out, pred) on an empty out; when the loop never ends the
\* caller never continues
ReadWhile ==
    /\ ~hist.crashed
    /\ ~hist.hung
    /\ \E pred \in Preds :
       \E r \in {call("readWhile", in_, << pred >>)} :
          IF r.hang
          THEN /\ UNCHANGED in_
               /\ hist' = [hist EXCEPT !.hung = TRUE, !.pred = pred,
                                       !.pre = StreamObs(in_)]
          ELSE /\ in_' = r.s
               /\ hist' = [hist EXCEPT !.lastOp = "readWhile",
                                       !.prevOp = hist.lastOp,
                                       !.prevRet = hist.ret,
                                       !.ret = 0,
                                       !.out = r.out,
                                       !.pred = pred,
                                       !.pre = StreamObs(in_)]
    /\ UNCHANGED tokVars

ReadNext == GetChar \/ ReadWhile

ReadSpec == StreamInit /\ [][ReadNext]_vars

(***************************************************************************)
(* The refills of the stream on their own: getChar() calls ensureData(1)   *)
(* and then, on a lead byte of a multi-byte sequence, ensureData(bytes).   *)
(* Each of the two calls is a step here, so that the buffer before and     *)
(* after a refill can be compared.                                         *)
(***************************************************************************)
\* the byte counts getChar() asks ensureData for in stream s: 1, and the
\* length announced by the lead byte at bufferPos_ when there is one
RequestedBytes(s) ==
    {1} \cup
    (IF s.bufferPos < s.bufferEnd
     THEN LET first == s.buffer[s.bufferPos + 1] IN
          IF first < 128 THEN {}
          ELSE IF first \div 32 = 6 THEN {2}
          ELSE IF first \div 16 = 14 THEN {3}
          ELSE IF first \div 8 = 30 THEN {4}
          ELSE {}
     ELSE {})

\* ensureData(n) as called by getChar()
EnsureData ==
    /\ ~hist.crashed
    /\ \E n \in RequestedBytes(in_) :
       \E e \in {call("ensureData", in_, << n >>)} :
       \E crash \in {FALSE, e.ub} :
          IF crash
          THEN /\ UNCHANGED in_
               /\ hist' = [hist EXCEPT !.crashed = TRUE]
          ELSE /\ in_' = e
               /\ hist' = [hist EXCEPT
                              !.lastOp = "ensureData",
                              !.prevOp = hist.lastOp,
                              !.prevRet = hist.ret,
                              !.ret = IF e.ok THEN 1 ELSE 0,
                              !.req = n,
                              !.before = [buffer |-> in_.buffer,
                                          bufferPos |-> in_.bufferPos,
                                          bufferEnd |-> in_.bufferEnd,
                                          srcPos |-> in_.srcPos],
                              !.pre = StreamObs(in_)]
    /\ UNCHANGED tokVars

RefillNext == GetChar \/ PeekChar \/ EnsureData

RefillSpec == StreamInit /\ [][RefillNext]_vars

(***************************************************************************)
(* A stream and the stream it was move-constructed from.  in_ is the live  *)
(* object: the original before the move, the new object after it.  Both   *)
(* objects hold a reference to the same source, so the moved-from object   *)
(* sees the source where the live one left it, and the other way round.    *)
(***************************************************************************)
\* BufferedInputStream b(std::move(*p))
Move ==
    /\ ~hist.crashed
    /\ moved_ = <<>>
    /\ \E m \in {moveConstruct(in_)} :
          /\ in_' = m.to
          /\ moved_' = << m.from >>
    /\ hist' = [hist EXCEPT !.lastOp = "move", !.prevOp = hist.lastOp,
                            !.prevRet = hist.ret, !.ret = 0,
                            !.pre = StreamObs(in_)]
    /\ UNCHANGED << opts_, lims_, state_, flags_, tagStack_, textArena_,
                    errors_, errorArena_, tagBufFreelist_,
                    freelistBlockSize_, pendingStart_, pendingStartValid_,
                    heap, out >>

\* the moved-from object, seeing the source where the live stream left it
MovedFrom == [moved_[1] EXCEPT !.srcPos = in_.srcPos]

\* the observations after the call op on the moved-from object returned ch
\* with the stream as g
mhistAfter(op, ch, g) ==
    [hist EXCEPT !.lastOp = op, !.prevOp = hist.lastOp,
                 !.prevRet = hist.ret, !.ret = ch,
                 !.srcBefore = in_.srcPos,
                 !.pre = StreamObs(in_)]

\* p->getChar() on the moved-from object; a store through the null buffer_
\* ends the process
MovedGetChar ==
    /\ ~hist.crashed
    /\ moved_ # <<>>
    /\ \E g \in {call("getChar", MovedFrom, << >>)} :
          IF g.ub
          THEN /\ UNCHANGED << in_, moved_ >>
               /\ hist' = [hist EXCEPT !.crashed = TRUE]
          ELSE /\ moved_' = << g >>
               /\ in_' = [in_ EXCEPT !.srcPos = g.srcPos]
               /\ hist' = mhistAfter("moved.getChar", g.ch, g)
    /\ UNCHANGED << opts_, lims_, state_, flags_, tagStack_, textArena_,
                    errors_, errorArena_, tagBufFreelist_,
                    freelistBlockSize_, pendingStart_, pendingStartValid_,
                    heap, out >>

\* p->peekChar() on the moved-from object
MovedPeekChar ==
    /\ ~hist.crashed
    /\ moved_ # <<>>
    /\ \E g \in {call("peekChar", MovedFrom, << >>)} :
          IF g.ub
          THEN /\ UNCHANGED << in_, moved_ >>
               /\ hist' = [hist EXCEPT !.crashed = TRUE]
          ELSE /\ moved_' = << g >>
               /\ in_' = [in_ EXCEPT !.srcPos = g.srcPos]
               /\ hist' = mhistAfter("moved.peekChar", g.ch, g)
    /\ UNCHANGED << opts_, lims_, state_, flags_, tagStack_, textArena_,
                    errors_, errorArena_, tagBufFreelist_,
                    freelistBlockSize_, pendingStart_, pendingStartValid_,
                    heap, out >>

\* p->readWhile(out, pred) and p->readUntil(out, d) on the moved-from object
MovedReadWhile ==
    /\ ~hist.crashed
    /\ moved_ # <<>>
    /\ \E pred \in Preds :
       \E r \in {call("readWhile", MovedFrom, << pred >>)} :
          IF r.s.ub
          THEN /\ UNCHANGED << in_, moved_ >>
               /\ hist' = [hist EXCEPT !.crashed = TRUE]
          ELSE /\ moved_' = << r.s >>
               /\ in_' = [in_ EXCEPT !.srcPos = r.s.srcPos]
               /\ hist' = [mhistAfter("moved.readWhile", 0, r.s) EXCEPT
                              !.out = r.out, !.pred = pred,
                              !.hung = r.hang]
    /\ UNCHANGED << opts_, lims_, state_, flags_, tagStack_, textArena_,
                    errors_, errorArena_, tagBufFreelist_,
                    freelistBlockSize_, pendingStart_, pendingStartValid_,
                    heap, out >>

MoveNext == GetChar \/ Move \/ MovedGetChar \/ MovedPeekChar \/ MovedReadWhile

MoveSpec == StreamInit /\ [][MoveNext]_vars

(***************************************************************************)
(* The UTF-8 codec on its own: UTF8Handler::encode and UTF8Handler::decode *)
(* applied the way src/tests/UTF8Handler_test.cpp applies them.  The       *)
(* variable hist holds the test's locals: the scalar cp or the byte        *)
(* sequence p, the results enc and dec, the output buffer buf and the      *)
(* scanner's offset i with the results it has seen.                        *)
(***************************************************************************)
\* the scalars at which the encoded width or the validity changes, and the
\* ones the scanner test encodes
ScalarEdges ==
    {0, 36, 127, 128, 169, 2047, 2048, 8364, 55295, 57344, 65535, 65536,
     128512, 1114111}

\* every value within ScalarWindow of an edge: scalars, surrogates and
\* values above U+10FFFF
CodePoints ==
    {c \in UNION {(e - ScalarWindow)..(e + ScalarWindow) : e \in ScalarEdges} :
        c >= 0}

\* one byte or two of every class of the first-byte table, both ends of the
\* continuation range, and the second bytes at which F0 and F4 sequences
\* (90) and E0 and ED sequences (9F) change validity:
\* '$', 80, 90, 9F, BF, C0, C2, E0, ED, F0, F4, FF
ByteAlphabet == {36, 128, 144, 159, 191, 192, 194, 224, 237, 240, 244, 255}

ByteSeqs == UNION {[1..k -> ByteAlphabet] : k \in 0..MaxSeqLen}

EncodeResult0 == [status |-> "Invalid", width |-> 0, bytes |-> <<>>]
DecodeResult0 == [cp |-> 0, width |-> 0, status |-> "Invalid"]

uhist0(kind, cp, p) ==
    [kind |-> kind, cp |-> cp, p |-> p, lastOp |-> "init", avail |-> 0,
     enc |-> EncodeResult0, buf |-> <<>>, dec |-> DecodeResult0,
     i |-> 0, seen |-> <<>>]

UTF8Init ==
    /\ in_ = BufferedInputStream(<<>>, MinStreamBuffer)
    /\ opts_ = [normalizeLineEndings |-> TRUE]
    /\ lims_ = clampLimits(DefaultLimits)
    /\ state_ = "Content"
    /\ flags_ = {}
    /\ tagStack_ = <<>>
    /\ textArena_ = <<>>
    /\ errors_ = <<>>
    /\ errorArena_ = [blk |-> 0, cap |-> 0, size |-> 0, segs |-> <<>>]
    /\ tagBufFreelist_ = <<>>
    /\ freelistBlockSize_ = clampLimits(DefaultLimits).maxPerTagBytes
    /\ pendingStart_ = SourcePosition0
    /\ pendingStartValid_ = FALSE
    /\ heap = <<>>
    /\ out = XMLToken0
    /\ moved_ = <<>>
    /\ \/ \E cp \in CodePoints : hist = uhist0("scalar", cp, <<>>)
       \/ \E p \in ByteSeqs : hist = uhist0("bytes", 0, p)

\* auto enc = UTF8Handler::encode(cp, buf, avail)
Encode ==
    /\ hist.kind = "scalar"
    /\ hist.lastOp = "init"
    /\ \E avail \in 0..4 :
       \E e \in {call("encode", hist.cp, << avail >>)} :
          hist' = [hist EXCEPT !.lastOp = "encode", !.avail = avail,
                               !.enc = e, !.buf = e.bytes]
    /\ UNCHANGED << in_, tokVars >>

\* auto dec = UTF8Handler::decode(buf, enc.width), after encode returned Ok
DecodeEncoded ==
    /\ hist.lastOp = "encode"
    /\ hist.enc.status = "Ok"
    /\ \E d \in {call("decode", hist.buf, << hist.enc.width >>)} :
          hist' = [hist EXCEPT !.lastOp = "decodeEncoded", !.dec = d]
    /\ UNCHANGED << in_, tokVars >>

\* auto r = UTF8Handler::decode(buf, cut), cut in 0..total
Decode ==
    /\ hist.kind = "bytes"
    /\ hist.lastOp = "init"
    /\ \E avail \in 0..Len(hist.p) :
       \E d \in {call("decode", hist.p, << avail >>)} :
          hist' = [hist EXCEPT !.lastOp = "decode", !.avail = avail,
                               !.dec = d]
    /\ UNCHANGED << in_, tokVars >>

\* auto enc = UTF8Handler::encode(r.cp, re, 4), after decode returned Ok
ReEncode ==
    /\ hist.lastOp = "decode"
    /\ hist.dec.status = "Ok"
    /\ \E e \in {call("encode", hist.dec.cp, << 4 >>)} :
          hist' = [hist EXCEPT !.lastOp = "reEncode", !.enc = e,
                               !.buf = e.bytes]
    /\ UNCHANGED << in_, tokVars >>

\* one turn of the scanner's loop:
\*   while (i < buf.size()) { r = decode(&buf[i], buf.size() - i); i += r.width; }
ScanStep ==
    /\ hist.kind = "bytes"
    /\ hist.lastOp \in {"init", "scan"}
    /\ hist.i < Len(hist.p)
    /\ \E r \in {call("decode", SubSeq(hist.p, hist.i + 1, Len(hist.p)),
                      << Len(hist.p) - hist.i >>)} :
          hist' = [hist EXCEPT
                      !.lastOp = "scan",
                      !.seen = Append(@, [at |-> hist.i, status |-> r.status,
                                          width |-> r.width, cp |-> r.cp]),
                      !.i = @ + r.width]
    /\ UNCHANGED << in_, tokVars >>

UTF8Next == Encode \/ DecodeEncoded \/ Decode \/ ReEncode \/ ScanStep

UTF8Spec == UTF8Init /\ [][UTF8Next]_vars

\* the test's classifyFirst: the width a first byte announces, 0 for a byte
\* that starts no sequence
classifyFirst(b) ==
    IF b <= 127 THEN 1
    ELSE IF b >= 128 /\ b <= 191 THEN 0
    ELSE IF b = 192 \/ b = 193 THEN 0
    ELSE IF b >= 194 /\ b <= 223 THEN 2
    ELSE IF b >= 224 /\ b <= 239 THEN 3
    ELSE IF b >= 240 /\ b <= 244 THEN 4
    ELSE 0

isCont(b) == b >= 128 /\ b <= 191               \* (b & 0xC0) == 0x80

\* the test's validateOk: the scalar of which the first width bytes of p are
\* the well-formed minimal encoding, -1 (0xFFFFFFFF) when there is none
validateOk(p, width) ==
    IF width = 1 THEN (IF p[1] <= 127 THEN p[1] ELSE -1)
    ELSE IF width = 2
    THEN IF p[1] < 194 \/ p[1] > 223 \/ ~isCont(p[2]) THEN -1
         ELSE LET cp == (p[1] % 32) * 64 + (p[2] % 64) IN
              IF cp < 128 THEN -1 ELSE cp
    ELSE IF width = 3
    THEN IF p[1] < 224 \/ p[1] > 239 \/ ~isCont(p[2]) \/ ~isCont(p[3]) THEN -1
         ELSE LET cp == (p[1] % 16) * 4096 + (p[2] % 64) * 64 + (p[3] % 64) IN
              IF cp < 2048 THEN -1
              ELSE IF cp >= 55296 /\ cp <= 57343 THEN -1
              ELSE cp
    ELSE IF width = 4
    THEN IF p[1] < 240 \/ p[1] > 244 \/ ~isCont(p[2]) \/ ~isCont(p[3])
            \/ ~isCont(p[4]) THEN -1
         ELSE LET cp == (p[1] % 8) * 262144 + (p[2] % 64) * 4096
                        + (p[3] % 64) * 64 + (p[4] % 64) IN
              IF cp < 65536 \/ cp > 1114111 THEN -1 ELSE cp
    ELSE -1

(***************************************************************************)
(* Properties.                                                             *)
(***************************************************************************)
IsTerminal(e) ==
    e.tok.type = "DocumentEnd" \/ (e.tok.type = "Error" /\ e.sev = "Fatal")

TagTypes == {"StartTag", "EndTag", "EmptyTag", "AttributeName",
             "AttributeValue"}

OpenElements == {tagStack_[i].eid : i \in 1..Len(tagStack_)}

\* C1: once nextToken has emitted DocumentEnd or a Fatal Error token, every
\* later nextToken call of the run returns false and writes no token, and a
\* clearErrors() call empties errors() without touching the flags.
C1_EndedStaysEnded ==
    [][ /\ ( /\ hist'.lastOp = "nextToken"
             /\ ~hist'.crashed
             /\ hist.emitted # <<>>
             /\ IsTerminal(Last(hist.emitted)) )
           => ( /\ hist'.ret = FALSE
                /\ hist'.emitted = hist.emitted
                /\ out' = out )
        /\ (hist'.lastOp = "clearErrors")
           => ( /\ errors_' = <<>>
                /\ flags_' = flags_
                /\ hist'.emitted = hist.emitted )
      ]_vars

\* a fatal Error token was emitted, errors() was cleared, and the nextToken
\* call after that returned false
C1_Witness ==
    /\ hist.lastOp = "nextToken"
    /\ hist.ret = FALSE
    /\ hist.clears >= 1
    /\ errors_ = <<>>
    /\ hist.emitted # <<>>
    /\ Last(hist.emitted).tok.type = "Error"
    /\ "Ended" \in flags_

\* C2: in every run the first token emitted is DocumentStart, no other token
\* is a DocumentStart, and a DocumentEnd or Fatal Error token is the last
\* token of the run.
C2_RunShape ==
    \A i \in 1..Len(hist.emitted) :
        /\ (hist.emitted[i].tok.type = "DocumentStart") <=> (i = 1)
        /\ IsTerminal(hist.emitted[i]) => i = Len(hist.emitted)

\* a run started by reset() that has emitted three tokens or more and ended
C2_Witness ==
    /\ hist.resets >= 1
    /\ Len(hist.emitted) >= 3
    /\ hist.emitted[1].tok.type = "DocumentStart"
    /\ IsTerminal(Last(hist.emitted))

\* the last nextToken call ran into a fatal condition: it set Ended and did
\* not emit DocumentEnd
FatalInLastCall ==
    /\ hist.lastOp = "nextToken"
    /\ ~hist.endedBefore
    /\ "Ended" \in flags_
    /\ ~(hist.ntok = 1 /\ Last(hist.emitted).tok.type = "DocumentEnd")

\* C3: a nextToken call that runs into a fatal condition returns true with
\* exactly one token, of type Error, written to the caller's token, and
\* appends exactly one record to errors(); and no call appends a record
\* without delivering its Error token.
C3_FatalDeliversOneError ==
    /\ FatalInLastCall =>
          /\ hist.ret = TRUE
          /\ hist.ntok = 1
          /\ out.type = "Error"
          /\ hist.nerr = 1
    /\ (hist.lastOp = "nextToken" /\ hist.nerr >= 1) =>
          (hist.ntok = 1 /\ out.type = "Error")

\* C4: the bytes of every tag token of an element that is still open, or that
\* was closed by the last nextToken call, are addressable and equal to the
\* bytes the token had when it was emitted.
C4_TagBytesStable ==
    \A i \in 1..Len(hist.emitted) :
        LET e == hist.emitted[i] IN
        ( /\ e.tok.type \in TagTypes
          /\ e.eid \in OpenElements \cup hist.closed )
        => Deref(World, e.tok.data, e.tok.length) = e.snap

C6_ErrorMessagesStable ==
    \A i \in 1..Len(hist.issued) :
        DerefMsg(World, hist.issued[i].ptr, hist.issued[i].len)
            = hist.issued[i].text

\* C7: nestingDepth() never exceeds limits.maxOpenDepth.
C7_DepthBounded == Len(tagStack_) <= lims_.maxOpenDepth

\* a start tag was refused at a full stack of at least one frame
C7_Witness ==
    /\ hist.lastOp = "nextToken"
    /\ hist.depthHit
    /\ Len(tagStack_) >= 1
    /\ Len(tagStack_) = lims_.maxOpenDepth

\* C8: a start tag opened at nestingDepth() = maxOpenDepth pushes no frame,
\* and the call returns true with an Error token whose record is
\* (LimitExceeded, Fatal); the call after it returns false.
C8_DepthLimitError ==
    /\ (hist.lastOp = "nextToken" /\ hist.depthHit) =>
          /\ Len(tagStack_) = hist.depthBefore
          /\ hist.ret = TRUE
          /\ hist.ntok = 1
          /\ out.type = "Error"
          /\ errors_ # <<>>
          /\ Last(errors_).code = "LimitExceeded"
          /\ Last(errors_).sev = "Fatal"
    /\ (hist.lastOp = "nextToken" /\ hist.endedBefore) => hist.ret = FALSE

\* C9: every frame has used <= cap <= maxPerTagBytes, and no append has
\* written past the end of a TagBuffer.
C9_PerTagBound ==
    /\ \A i \in 1..Len(tagStack_) :
          /\ tagStack_[i].used <= tagStack_[i].cap
          /\ tagStack_[i].cap <= lims_.maxPerTagBytes
    /\ ~hist.oob

\* C10: the tokens of a run carry non-decreasing byte offsets and
\* lexicographically non-decreasing (line, column) pairs.
C10_PositionsMonotone ==
    \A i \in 1..Len(hist.emitted), j \in 1..Len(hist.emitted) :
        i < j =>
          LET a == hist.emitted[i].tok
              b == hist.emitted[j].tok
          IN /\ a.byteOffset <= b.byteOffset
             /\ \/ a.line < b.line
                \/ (a.line = b.line /\ a.column <= b.column)

\* a run whose last token is a DocumentEnd or Fatal Error on a later line and
\* at a later byte than its second token
C10_Witness ==
    /\ Len(hist.emitted) >= 3
    /\ IsTerminal(Last(hist.emitted))
    /\ Last(hist.emitted).tok.line > hist.emitted[2].tok.line
    /\ Last(hist.emitted).tok.byteOffset > hist.emitted[2].tok.byteOffset

\* the name of the element on top of the stack before the last nextToken
\* call: the bytes of its StartTag token
TopNameBefore ==
    LET i == CHOOSE i \in 1..Len(hist.emitted) :
                 /\ hist.emitted[i].tok.type = "StartTag"
                 /\ hist.emitted[i].eid = hist.topBefore
    IN hist.emitted[i].snap

TopOpenedBefore ==
    /\ hist.topBefore # 0
    /\ \E i \in 1..Len(hist.emitted) :
          /\ hist.emitted[i].tok.type = "StartTag"
          /\ hist.emitted[i].eid = hist.topBefore

\* C11: a nextToken call emits EndTag and pops a frame only when the scanned
\* end-tag name equals the name of the top frame; an end tag with another
\* name, or with no element open, gives a Fatal Error and pops nothing.
C11_EndTagMatchesTop ==
    hist.lastOp = "nextToken" =>
      /\ (hist.ntok = 1 /\ Last(hist.emitted).tok.type = "EndTag") =>
            /\ TopOpenedBefore
            /\ Last(hist.emitted).eid = hist.topBefore
            /\ hist.scanned = TopNameBefore
            /\ Len(tagStack_) = hist.depthBefore - 1
      /\ (hist.endTag /\ (~TopOpenedBefore \/ hist.scanned # TopNameBefore)) =>
            /\ hist.ntok = 1
            /\ IsTerminal(Last(hist.emitted))
            /\ Last(hist.emitted).tok.type = "Error"
            /\ Len(tagStack_) = hist.depthBefore
      /\ Len(tagStack_) < hist.depthBefore =>
            /\ hist.ntok = 1
            /\ Last(hist.emitted).tok.type \in {"EndTag", "EmptyTag"}

UnclosedTagError(e) ==
    /\ e.tok.type = "Error"
    /\ e.code = "UnexpectedEOF"
    /\ e.sev = "Fatal"
    /\ e.msg = "Unclosed tag at end of document"
    /\ e.tok.length = 31

\* the last nextToken call began in Content, after DocumentStart and before
\* the end of the run, with the stream at end of input
AtEndOfInput ==
    /\ hist.lastOp = "nextToken"
    /\ hist.startedBefore
    /\ ~hist.endedBefore
    /\ hist.stateBefore = "Content"
    /\ hist.eofBefore

RECURSIVE ScalarsFrom(_, _)
ScalarsFrom(bytes, i) ==
    IF i > Len(bytes) THEN <<>>
    ELSE LET r == decode(SubSeq(bytes, i, Len(bytes)), Len(bytes) - i + 1)
         IN IF r.status # "Ok" THEN << -1 >>
            ELSE << r.cp >> \o ScalarsFrom(bytes, i + r.width)

ValidUTF8(bytes) ==
    \A k \in 1..Len(ScalarsFrom(bytes, 1)) : ScalarsFrom(bytes, 1)[k] >= 0

Contains(bytes, b) == \E k \in 1..Len(bytes) : bytes[k] = b

\* the run is the first one on its stream, driven by nextToken alone (no
\* direct emitError call), and the whole input is one text run that is
\* copied byte for byte
PlainTextRun ==
    /\ hist.resets = 0
    /\ hist.errCalls = 0
    /\ ValidUTF8(in_.input)
    /\ ~Contains(in_.input, ChLT)
    /\ Len(in_.input) < lims_.maxTextRunBytes
    /\ (~Contains(in_.input, CR) \/ ~opts_.normalizeLineEndings)

\* the tokens of a run over a plain text input
PlainTextTokens ==
    << [type |-> "DocumentStart", bytes |-> <<>>] >>
    \o (IF in_.input = <<>> THEN <<>>
        ELSE << [type |-> "Text", bytes |-> in_.input] >>)
    \o << [type |-> "DocumentEnd", bytes |-> <<>>] >>

\* C13: for a valid UTF-8 input without '<', shorter than max_text_run_bytes,
\* and without CR unless NormalizeLineEndings is cleared, the run emits
\* DocumentStart, one Text token with the bytes of the whole input (none for
\* the empty input), DocumentEnd, and then returns false.
C13_TextEqualsInput ==
    PlainTextRun =>
      /\ ~hist.crashed
      /\ Len(hist.emitted) <= Len(PlainTextTokens)
      /\ \A i \in 1..Len(hist.emitted) :
            /\ hist.emitted[i].tok.type = PlainTextTokens[i].type
            /\ hist.emitted[i].snap = PlainTextTokens[i].bytes
            /\ hist.emitted[i].tok.length = Len(PlainTextTokens[i].bytes)
      /\ (hist.lastOp = "nextToken" /\ hist.ret = FALSE)
            => Len(hist.emitted) = Len(PlainTextTokens)

\* line-ending normalisation of a byte sequence: CR LF and a lone CR become
\* one LF, every other byte is kept
RECURSIVE NormalizedLineEndings(_)
NormalizedLineEndings(bytes) ==
    IF bytes = <<>> THEN <<>>
    ELSE IF bytes[1] = CR
    THEN IF Len(bytes) >= 2 /\ bytes[2] = LF
         THEN << LF >> \o NormalizedLineEndings(SubSeq(bytes, 3, Len(bytes)))
         ELSE << LF >> \o NormalizedLineEndings(Tail(bytes))
    ELSE << bytes[1] >> \o NormalizedLineEndings(Tail(bytes))

\* C14: with NormalizeLineEndings set, the Text token of a text run holds the
\* run with every CR LF pair and every lone CR replaced by one LF and every
\* other scalar copied in order, so it contains no CR byte.
C14_LineEndingsNormalized ==
    ( /\ opts_.normalizeLineEndings
      /\ hist.resets = 0
      /\ hist.errCalls = 0
      /\ ValidUTF8(in_.input)
      /\ ~Contains(in_.input, ChLT) )
    => \A i \in 1..Len(hist.emitted) :
          hist.emitted[i].tok.type = "Text"
             => /\ hist.emitted[i].snap = NormalizedLineEndings(in_.input)
                /\ ~Contains(hist.emitted[i].snap, CR)

\* the last nextToken call filled the TextArena up to max_text_run_bytes
TextLimitHit ==
    /\ hist.lastOp = "nextToken"
    /\ ~hist.endedBefore
    /\ Len(textArena_) >= lims_.maxTextRunBytes

\* C15: a nextToken call whose text scan reaches max_text_run_bytes emits no
\* Text token but one Error token (LimitExceeded, Fatal) whose bytes are the
\* 22 bytes "Text run exceeds limit", with length 22, and ends the run.
C15_TextLimitError ==
    TextLimitHit =>
      /\ hist.ret = TRUE
      /\ hist.ntok = 1
      /\ Last(hist.emitted).tok.type = "Error"
      /\ Last(hist.emitted).code = "LimitExceeded"
      /\ Last(hist.emitted).sev = "Fatal"
      /\ Last(hist.emitted).tok.length = 22
      /\ Last(hist.emitted).msg = "Text run exceeds limit"
      /\ "Ended" \in flags_

\* the last nextToken call consumed a '<' in TagOpen and found next a scalar
\* that opens neither an end tag nor a start tag
BadAfterLT ==
    /\ hist.lastOp = "nextToken"
    /\ hist.ltSeen
    /\ hist.ltNext >= 0
    /\ hist.ltNext # ChSlash
    /\ ~isNameStart(hist.ltNext)

EOFAfterLT ==
    /\ hist.lastOp = "nextToken"
    /\ hist.ltSeen
    /\ hist.ltNext < 0

\* C16: after a '<' consumed in TagOpen, end of input gives
\* Error(UnexpectedEOF, Fatal, "Unexpected EOF after '<'") and a scalar that
\* is neither '/' nor a name-start scalar gives Error(InvalidCharAfterLT,
\* Fatal, "Invalid character after '<'"); no frame is pushed and the run is
\* ended.
C16_ErrorAfterLT ==
    /\ EOFAfterLT =>
          /\ hist.ret = TRUE
          /\ hist.ntok = 1
          /\ Last(hist.emitted).tok.type = "Error"
          /\ Last(hist.emitted).code = "UnexpectedEOF"
          /\ Last(hist.emitted).sev = "Fatal"
          /\ Last(hist.emitted).msg = "Unexpected EOF after '<'"
          /\ Len(tagStack_) = hist.depthBefore
          /\ "Ended" \in flags_
    /\ BadAfterLT =>
          /\ hist.ret = TRUE
          /\ hist.ntok = 1
          /\ Last(hist.emitted).tok.type = "Error"
          /\ Last(hist.emitted).code = "InvalidCharAfterLT"
          /\ Last(hist.emitted).sev = "Fatal"
          /\ Last(hist.emitted).msg = "Invalid character after '<'"
          /\ Len(tagStack_) = hist.depthBefore
          /\ "Ended" \in flags_

\* a '?' after the '<' with an element open: the Error token was emitted and
\* the frame of the open element is still the only one
C16_Witness ==
    /\ BadAfterLT
    /\ hist.ltNext = 63
    /\ Len(tagStack_) = 1
    /\ Last(hist.emitted).code = "InvalidCharAfterLT"

\* C17: after reset() the state is Content, the tag stack and errors() are
\* empty, no flag is set and no start position is pending; the nextToken
\* call that follows returns true with a DocumentStart token.
C17_ResetRestoresInitialState ==
    /\ (hist.lastOp = "reset") =>
          /\ state_ = "Content"
          /\ nestingDepth(World) = 0
          /\ errors_ = <<>>
          /\ flags_ = {}
          /\ ~pendingStartValid_
    /\ (hist.lastOp = "nextToken" /\ hist.afterReset) =>
          /\ hist.ret = TRUE
          /\ hist.ntok = 1
          /\ Last(hist.emitted).tok.type = "DocumentStart"
          /\ out.type = "DocumentStart"

\* reset() was called with an element open, and the next call gave
\* DocumentStart
C17_Witness ==
    /\ hist.lastOp = "nextToken"
    /\ hist.afterReset
    /\ hist.resetFrom = "open"
    /\ out.type = "DocumentStart"

\* the bytes of the input from index i up to the next double quote
RECURSIVE UpToQuote(_, _)
UpToQuote(bytes, i) ==
    IF i > Len(bytes) \/ bytes[i] = ChQuote THEN <<>>
    ELSE << bytes[i] >> \o UpToQuote(bytes, i + 1)

\* the bytes between the quotes of the attribute value whose token is e: the
\* token's position is that of the opening quote
QuotedBytes(e) == UpToQuote(in_.input, e.tok.byteOffset + in_.bomSize + 2)

\* C18: the token after an AttributeName is an AttributeValue of the same
\* element holding the bytes between the two double quotes, or a Fatal Error;
\* an AttributeValue comes only right after an AttributeName, and the call
\* after an AttributeName always delivers its token.
C18_AttributePairs ==
    /\ \A i \in 1..Len(hist.emitted) :
          /\ (hist.emitted[i].tok.type = "AttributeName" /\ i < Len(hist.emitted))
             => \/ /\ hist.emitted[i + 1].tok.type = "AttributeValue"
                   /\ hist.emitted[i + 1].eid = hist.emitted[i].eid
                   /\ hist.emitted[i + 1].snap = QuotedBytes(hist.emitted[i + 1])
                   /\ hist.emitted[i + 1].tok.length
                         = Len(QuotedBytes(hist.emitted[i + 1]))
                \/ /\ hist.emitted[i + 1].tok.type = "Error"
                   /\ hist.emitted[i + 1].sev = "Fatal"
          /\ (hist.emitted[i].tok.type = "AttributeValue")
             => (i > 1 /\ hist.emitted[i - 1].tok.type = "AttributeName")
    /\ ( /\ hist.lastOp = "nextToken"
         /\ hist.stateBefore = "AfterAttrName"
         /\ ~hist.endedBefore )
       => (hist.ret = TRUE /\ hist.ntok = 1)

\* C19: a peekChar() call leaves the byte offset, line, column, pending-CR
\* state and the values the following getChar() calls return as they were,
\* and a second peek with no consume in between returns the same value.
C19_PeekChangesNothing ==
    (hist.lastOp = "peekChar") =>
       /\ StreamObs(in_) = hist.pre
       /\ (hist.prevOp = "peekChar") => (hist.ret = hist.prevRet)

\* C20: for a valid UTF-8 input and a buffer size of 4 or more, the values
\* returned by successive getChar() calls up to the first negative one are
\* the scalars of the input, followed by -1.
C20_GetCharYieldsScalars ==
    (~hist.peeked /\ ValidUTF8(in_.input) /\ in_.bufferSize >= MinStreamBuffer) =>
       /\ ~hist.crashed
       /\ LET want == ScalarsFrom(in_.input, 1) \o << -1 >> IN
          /\ Len(hist.got) <= Len(want)
          /\ \A k \in 1..Len(hist.got) : hist.got[k] = want[k]

\* the encoded widths of the scalars cps, summed
RECURSIVE WidthSum(_)
WidthSum(cps) ==
    IF cps = <<>> THEN 0
    ELSE encode(cps[1], 4).width + WidthSum(Tail(cps))

\* C21: a getChar() call that returns a scalar advances the byte offset by
\* that scalar's encoded width and by no more; a call that returns -1 leaves
\* byte offset, line and column as they were; so the byte offset is the
\* number of source bytes of the scalars returned so far.
C21_GetCharAdvancesByWidth ==
    /\ (hist.lastOp = "getChar" /\ hist.ret >= 0) =>
          getTotalBytesRead(in_) - hist.pre.byteOffset
             = encode(hist.ret, 4).width
    /\ (hist.lastOp = "getChar" /\ hist.ret = -1) =>
          /\ getTotalBytesRead(in_) = hist.pre.byteOffset
          /\ getCurrentLine(in_) = hist.pre.line
          /\ getCurrentColumn(in_) = hist.pre.column
    /\ (~hist.done /\ ~hist.crashed) =>
          getTotalBytesRead(in_) = WidthSum(hist.got)

\* the bytes consumed so far: the input after the BOM, up to the byte offset
Consumed(s) ==
    SubSeq(s.input, s.bomSize + 1,
           Min(Len(s.input), s.bomSize + getTotalBytesRead(s)))

\* line terminators in bytes: every CR, and every LF that does not follow a CR
Terminators(bytes) ==
    Cardinality({k \in 1..Len(bytes) :
                    \/ bytes[k] = CR
                    \/ bytes[k] = LF /\ (k = 1 \/ bytes[k - 1] # CR)})

\* C22: whatever calls were made (refills and peeks included), the stream is
\* alive, the line is 1 plus the number of line terminators consumed, a CR LF
\* pair counting once, and right after a terminator the column is 1.
C22_LineCountsTerminators ==
    /\ ~hist.crashed
    /\ getCurrentLine(in_) = 1 + Terminators(Consumed(in_))
    /\ ( /\ Consumed(in_) # <<>>
         /\ Last(Consumed(in_)) \in {CR, LF} )
       => getCurrentColumn(in_) = 1

\* no line terminator among the scalars cps
NoTerminator(cps) == \A k \in 1..Len(cps) : cps[k] \notin {CR, LF}

\* C23: a getChar() call that returns a scalar other than CR and LF advances
\* the column by one, whatever the scalar's encoded width; while no line
\* terminator has been returned the column is 1 plus the number of scalars
\* returned.
C23_ColumnCountsScalars ==
    /\ ( /\ hist.lastOp = "getChar"
         /\ hist.ret >= 0
         /\ hist.ret \notin {CR, LF} )
       => getCurrentColumn(in_) = hist.pre.column + 1
    /\ (~hist.done /\ NoTerminator(hist.got))
       => getCurrentColumn(in_) = 1 + Len(hist.got)

\* a four-byte scalar has been consumed after a three-byte one
C23_Witness ==
    /\ hist.lastOp = "getChar"
    /\ hist.got = << 8364, 128512 >>
    /\ getTotalBytesRead(in_) = 7
    /\ getCurrentColumn(in_) = 3

\* the input starts with a byte order mark
StartsWithBOM(bytes) == Len(bytes) >= 3 /\ SubSeq(bytes, 1, 3) = BOM

\* the scalar that follows the byte order mark, -1 when nothing follows
AfterBOM(bytes) ==
    IF Len(bytes) = 3 THEN -1
    ELSE decode(SubSeq(bytes, 4, Len(bytes)), Len(bytes) - 3).cp

\* C24: when the input starts with EF BB BF, the new stream reports byte
\* offset 0, line 1 and column 1, and the first getChar() returns the scalar
\* that follows the byte order mark, or -1 when nothing follows.
C24_BOMSkipped ==
    StartsWithBOM(in_.input) =>
       /\ (hist.lastOp = "init") =>
             /\ getTotalBytesRead(in_) = 0
             /\ getCurrentLine(in_) = 1
             /\ getCurrentColumn(in_) = 1
       /\ (hist.lastOp = "getChar" /\ hist.prevOp = "init") =>
             hist.ret = AfterBOM(in_.input)

\* the number of bytes, from index i of bytes on, of the longest run of
\* scalars that decode and that pred accepts
RECURSIVE AcceptedRun(_, _, _)
AcceptedRun(bytes, i, pred) ==
    IF i > Len(bytes) THEN 0
    ELSE LET d == decode(SubSeq(bytes, i, Len(bytes)), Len(bytes) - i + 1) IN
         IF d.status = "Ok" /\ Accepts(pred, d.cp)
         THEN d.width + AcceptedRun(bytes, i + d.width, pred)
         ELSE 0

\* the value of getChar() at index i of bytes: the scalar there, -1 at the end
ScalarAt(bytes, i) ==
    IF i > Len(bytes) THEN -1
    ELSE decode(SubSeq(bytes, i, Len(bytes)), Len(bytes) - i + 1).cp

\* C25: readWhile(out, pred) returns, having appended exactly the bytes of
\* the longest run of next scalars that pred accepts, and leaves the stream
\* at the first rejected scalar, which the next getChar() returns.
C25_ReadWhileLongestRun ==
    /\ ~hist.hung
    /\ (hist.lastOp = "readWhile") =>
          LET from == in_.bomSize + hist.pre.byteOffset
              n == AcceptedRun(in_.input, from + 1, hist.pred)
          IN /\ hist.out = SubSeq(in_.input, from + 1, from + n)
             /\ getTotalBytesRead(in_) = hist.pre.byteOffset + n
             /\ call("getChar", in_, << >>).ch
                   = ScalarAt(in_.input, from + n + 1)

\* the bytes at index i of bytes are not a valid UTF-8 sequence
InvalidAt(bytes, i) ==
    /\ i <= Len(bytes)
    /\ decode(SubSeq(bytes, i, Len(bytes)), Len(bytes) - i + 1).status # "Ok"

\* C26: when the next bytes are not a valid UTF-8 sequence, getChar() and
\* peekChar() return -1 and leave byte offset, line and column as they were.
C26_InvalidIsEndOfInput ==
    ( /\ hist.lastOp \in {"getChar", "peekChar"}
      /\ ~hist.peekedBefore
      /\ InvalidAt(in_.input, in_.bomSize + hist.pre.byteOffset + 1) )
    => /\ hist.ret = -1
       /\ getTotalBytesRead(in_) = hist.pre.byteOffset
       /\ getCurrentLine(in_) = hist.pre.line
       /\ getCurrentColumn(in_) = hist.pre.column

\* C27: the object a stream was moved from is not valid; getChar() and
\* peekChar() on it return -1, readWhile() and readUntil() on it append
\* nothing, and none of these calls reads from the source or ends the
\* process; the new stream observes what the original observed.
C27_MovedFromIsEndOfInput ==
    /\ ~hist.crashed
    /\ (moved_ # <<>>) => ~isValid(moved_[1])
    /\ (hist.lastOp \in {"moved.getChar", "moved.peekChar"}) =>
          /\ hist.ret = -1
          /\ in_.srcPos = hist.srcBefore
    /\ (hist.lastOp = "moved.readWhile") =>
          /\ hist.out = <<>>
          /\ ~hist.hung
          /\ in_.srcPos = hist.srcBefore
    /\ (hist.lastOp = "move") => StreamObs(in_) = hist.pre

\* a Unicode scalar: U+0000..U+D7FF or U+E000..U+10FFFF
IsScalar(cp) ==
    (cp >= 0 /\ cp <= 55295) \/ (cp >= 57344 /\ cp <= 1114111)

\* C28: for every Unicode scalar cp, encode(cp, buf, 4) returns Ok(width) and
\* decode(buf, width) returns Ok(cp, width); and whenever decode classifies a
\* byte sequence as Ok(cp, width), encode(cp, re, 4) returns Ok(width) and
\* writes exactly those width bytes.
C28_RoundTrip ==
    /\ (hist.lastOp = "encode" /\ hist.avail = 4 /\ IsScalar(hist.cp))
          => /\ hist.enc.status = "Ok"
             /\ hist.enc.width \in 1..4
             /\ Len(hist.buf) = hist.enc.width
    /\ (hist.lastOp = "decodeEncoded" /\ hist.avail = 4 /\ IsScalar(hist.cp))
          => hist.dec = [cp |-> hist.cp, width |-> hist.enc.width,
                         status |-> "Ok"]
    /\ hist.lastOp = "reEncode"
          => /\ hist.enc.status = "Ok"
             /\ hist.enc.width = hist.dec.width
             /\ hist.buf = SubSeq(hist.p, 1, hist.dec.width)

\* U+10FFFF has gone through encode and decode
C28_Witness ==
    /\ hist.lastOp = "decodeEncoded"
    /\ hist.cp = 1114111
    /\ hist.avail = 4
    /\ hist.buf = << 244, 143, 191, 191 >>
    /\ hist.dec = [cp |-> 1114111, width |-> 4, status |-> "Ok"]

\* the width w <= avail for which the first w bytes of p are the minimal
\* encoding of a scalar; 0 when there is none
OkWidth(p, avail) ==
    LET ws == {w \in 1..4 : w <= avail /\ validateOk(p, w) # -1} IN
    IF ws = {} THEN 0 ELSE CHOOSE w \in ws : TRUE

\* C29: decode(p, avail) returns Ok(cp, width) exactly when the first
\* width <= avail bytes are the minimal encoding of a non-surrogate cp up to
\* U+10FFFF; NeedMore exactly when avail is 0 (width 1) or the first byte is
\* a starter C2..F4 whose width exceeds avail (that width); and Invalid with
\* width 1 in every other case.
C29_DecodeClassification ==
    hist.lastOp = "decode" =>
        LET p == hist.p
            avail == hist.avail
            r == hist.dec
            w == OkWidth(p, avail)
            needMore == avail = 0
                        \/ (p[1] >= 194 /\ p[1] <= 244
                            /\ classifyFirst(p[1]) > avail)
        IN /\ r.status \in {"Ok", "NeedMore", "Invalid"}
           /\ r.status = "Ok" <=> w # 0
           /\ r.status = "Ok" =>
                 /\ r.width = w
                 /\ r.cp = validateOk(p, w)
                 /\ IsScalar(r.cp)
           /\ r.status = "NeedMore" <=> needMore
           /\ r.status = "NeedMore" =>
                 r.width = IF avail = 0 THEN 1 ELSE classifyFirst(p[1])
           /\ r.status = "Invalid" => r.width = 1

\* decode has classified the surrogate form ED BF BF, three bytes available,
\* as Invalid with width 1
C29_Witness ==
    /\ hist.lastOp = "decode"
    /\ hist.p = << 237, 191, 191 >>
    /\ hist.avail = 3
    /\ hist.dec.status = "Invalid"
    /\ hist.dec.width = 1

\* the steps of the scan that covered the byte at offset j
StepsAt(j) ==
    {k \in 1..Len(hist.seen) :
        hist.seen[k].at <= j /\ j < hist.seen[k].at + hist.seen[k].width}

\* a byte that starts no sequence: 80..BF, C0, C1, F5..FF
IsInvalidStarter(b) == classifyFirst(b) = 0

\* what holds of every scan: each step starts where the one before it ended,
\* every byte before the offset was covered by exactly one step, every
\* Invalid result has width 1, and a sequence made only of bytes that start
\* no sequence yields Invalid at every step
ScanProgress ==
    /\ \A k \in 1..Len(hist.seen) :
          /\ hist.seen[k].width \in 1..4
          /\ hist.seen[k].at = IF k = 1 THEN 0
                               ELSE hist.seen[k - 1].at + hist.seen[k - 1].width
          /\ hist.seen[k].status = "Invalid" => hist.seen[k].width = 1
          /\ hist.seen[k].status = "Ok" =>
                hist.seen[k].at + hist.seen[k].width <= Len(hist.p)
    /\ \A j \in 0..(Len(hist.p) - 1) :
          j < hist.i => Cardinality(StepsAt(j)) = 1
    /\ (\A j \in 1..Len(hist.p) : IsInvalidStarter(hist.p[j]))
          => \A k \in 1..Len(hist.seen) : hist.seen[k].status = "Invalid"

\* the scan's loop has ended
ScanEnded == hist.lastOp = "scan" /\ hist.i >= Len(hist.p)

\* the last result of the scan is a NeedMore whose width reaches past the end
EndsTruncated ==
    /\ hist.seen # <<>>
    /\ hist.seen[Len(hist.seen)].status = "NeedMore"
    /\ hist.i > Len(hist.p)

\* C30: a scan that starts at offset 0, decodes at the current offset with
\* avail = the remaining bytes and advances by the returned width covers
\* every byte exactly once; it stops exactly at the end of the sequence
\* unless the sequence ends inside a multi-byte scalar, where the last result
\* is NeedMore and its width reaches past the end; every Invalid result has
\* width 1, and a sequence made only of invalid bytes never yields NeedMore.
C30_ScanCoversEveryByte ==
    hist.lastOp = "scan" =>
        /\ ScanProgress
        /\ ScanEnded => (hist.i = Len(hist.p) \/ EndsTruncated)
        /\ EndsTruncated => classifyFirst(hist.p[hist.seen[Len(hist.seen)].at + 1])
                               > Len(hist.p) - hist.seen[Len(hist.seen)].at

\* the scan of '$' FF E0 BF has ended: Ok, Invalid, NeedMore(3), offset 5
C30_Witness ==
    /\ ScanEnded
    /\ hist.p = << 36, 255, 224, 191 >>
    /\ Len(hist.seen) = 3
    /\ hist.seen[2].status = "Invalid"
    /\ hist.seen[3].status = "NeedMore"
    /\ hist.i = 5

\* C30 as stated: the scan covers every byte exactly once and stops exactly
\* at the end of every sequence.
C30_ScanStopsAtEnd ==
    hist.lastOp = "scan" =>
        /\ ScanProgress
        /\ ScanEnded => hist.i = Len(hist.p)

\* the number of bytes of the minimal encoding of a scalar
MinimalWidth(cp) ==
    IF cp < 128 THEN 1 ELSE IF cp < 2048 THEN 2 ELSE IF cp < 65536 THEN 3 ELSE 4

\* C31: encode(cp, out, avail) returns Invalid for every surrogate and every
\* cp above U+10FFFF whatever avail is, NeedMore(width) for a scalar whose
\* minimal width exceeds avail, and Ok(width) otherwise with exactly the
\* bytes of the minimal encoding written; on Invalid and on NeedMore nothing
\* is written to out.
C31_EncodeClassification ==
    hist.lastOp = "encode" =>
        LET cp == hist.cp
            r == hist.enc
        IN /\ r.status \in {"Ok", "NeedMore", "Invalid"}
           /\ r.status = "Invalid" <=> ~IsScalar(cp)
           /\ r.status = "NeedMore" <=>
                 (IsScalar(cp) /\ MinimalWidth(cp) > hist.avail)
           /\ r.status = "NeedMore" => r.width = MinimalWidth(cp)
           /\ r.status # "Ok" => hist.buf = <<>>
           /\ r.status = "Ok" =>
                 /\ r.width = MinimalWidth(cp)
                 /\ r.width <= hist.avail
                 /\ Len(hist.buf) = r.width
                 /\ \A k \in 1..Len(hist.buf) : hist.buf[k] \in 0..255
                 /\ validateOk(hist.buf, r.width) = cp

\* encode has answered U+20AC with two bytes of room by NeedMore(3), nothing
\* written
C31_Witness ==
    /\ hist.lastOp = "encode"
    /\ hist.cp = 8364
    /\ hist.avail = 2
    /\ hist.enc.status = "NeedMore"
    /\ hist.enc.width = 3
    /\ hist.buf = <<>>

\* C32: readWhile returns on every input and every buffer size of 4 or more,
\* also when the unread window ends with an incomplete multi-byte scalar,
\* whether more source bytes follow or the source is exhausted inside the
\* scalar: no call is left turning in its outer loop.
C32_ReadWhileReturns == ~hist.hung

\* the unread bytes of the buffer before the last ensureData call
UnreadBefore ==
    SubSeq(hist.before.buffer, hist.before.bufferPos + 1, hist.before.bufferEnd)

\* the unread bytes of the buffer now
UnreadNow == SubSeq(in_.buffer, in_.bufferPos + 1, in_.bufferEnd)

\* the source bytes the last ensureData call has read
NewlyRead == SubSeq(in_.input, hist.before.srcPos + 1, in_.srcPos)

\* the unread window after an ensureData call is the unread window before
\* it, in order, followed by the source bytes the call has read
RefillKeepsUnread ==
    (hist.lastOp = "ensureData"
        /\ hist.before.bufferPos <= hist.before.bufferEnd)
    => UnreadNow = UnreadBefore \o NewlyRead

\* an ensureData call that finds fewer unread bytes than requested reads
\* from a source that is not exhausted
RefillReadsMore ==
    (hist.lastOp = "ensureData"
        /\ hist.before.bufferPos <= hist.before.bufferEnd
        /\ hist.before.bufferEnd - hist.before.bufferPos < hist.req
        /\ hist.before.srcPos < Len(in_.input))
    => in_.srcPos > hist.before.srcPos

\* C33: a refill never loses, duplicates or reorders unread bytes: the k
\* bytes unread before it are the first k unread bytes after it, in order,
\* followed only by newly read source bytes; and the refill reads more
\* source bytes whenever fewer than the requested count are available and
\* the source is not exhausted.
C33_RefillPreservesUnread == RefillKeepsUnread /\ RefillReadsMore

\* every allocated TagBuffer on the stack has capacity limits.maxPerTagBytes
TagBufferCaps ==
    \A i \in 1..Len(tagStack_) :
        tagStack_[i].mem # 0 => tagStack_[i].cap = lims_.maxPerTagBytes

\* a step keeps, for every frame that stays on the stack, the block and the
\* capacity that frame had
TagBufferKept ==
    \A i \in 1..Len(tagStack_) :
        (i <= Len(tagStack_')
            /\ tagStack_'[i].eid = tagStack_[i].eid
            /\ tagStack_[i].mem # 0)
        => /\ tagStack_'[i].mem = tagStack_[i].mem
           /\ tagStack_'[i].cap = tagStack_[i].cap

\* C34: once a frame's TagBuffer has been allocated, the same memory block,
\* of capacity exactly limits.maxPerTagBytes, backs that frame until the
\* frame is popped: no append and no capacity check grows, reallocates or
\* replaces it.
C34_TagBufferFixed == []TagBufferCaps /\ [][TagBufferKept]_vars

\* a DocumentEnd token has been emitted since construction or the last reset()
DocumentEndEmitted ==
    \E i \in 1..Len(hist.emitted) : hist.emitted[i].tok.type = "DocumentEnd"

\* C35: in every reachable state in which the Ended flag is set, a
\* DocumentEnd token has been emitted or a Fatal error record has been
\* appended to errors() since construction or the last reset(); no path
\* (per-tag capacity failure, zero maxPerTagBytes, allocation failure, depth
\* limit) sets Ended without one of the two.
C35_EndedHasCause ==
    "Ended" \in flags_ => (DocumentEndEmitted \/ hist.fatalRecorded)

\* the run on "<a>" with maxPerTagBytes = 0 has ended on the zero-capacity
\* guard: Ended is set, no DocumentEnd was emitted, errors() holds a Fatal
\* record
C35_Witness ==
    /\ "Ended" \in flags_
    /\ lims_.maxPerTagBytes = 0
    /\ ~DocumentEndEmitted
    /\ hist.fatalRecorded
    /\ errors_ # <<>>
    /\ Last(errors_).sev = "Fatal"

\* the position a token carries
PositionOf(t) ==
    [byteOffset |-> t.byteOffset, line |-> t.line, column |-> t.column]

\* the position an error of the last call has to carry: the start the call
\* marked, or the cursor when it marked none (no start is pending between
\* calls, which is the first conjunct of C36_ErrorPosition)
ErrorWhere ==
    IF hist.marked # <<>> THEN Last(hist.marked)
    ELSE currentPosition(World)

\* the last call was nextToken() and it emitted an Error token
ErrorTokenEmitted ==
    /\ hist.lastOp = "nextToken"
    /\ hist.ntok = 1
    /\ Last(hist.emitted).tok.type = "Error"

\* C36: an Error token and the errors() record made with it carry the same
\* position, which is the start that was marked and not yet used, and the
\* cursor when there is none; after every emit of a token the pending-start
\* slot is invalid, so no second token can use the same mark.
C36_ErrorPosition ==
    /\ ~pendingStartValid_
    /\ ErrorTokenEmitted =>
          /\ errors_ # <<>>
          /\ PositionOf(Last(hist.emitted).tok) = Last(errors_).where
          /\ Last(errors_).where = ErrorWhere
    /\ hist.lastOp = "emitError" =>
          /\ out.type = "Error"
          /\ PositionOf(out) = Last(errors_).where
          /\ Last(errors_).where = ErrorWhere

\* a malformed tag: the Error token is at the '<' the call marked, behind
\* the cursor
C36_Witness ==
    /\ ErrorTokenEmitted
    /\ hist.marked # <<>>
    /\ PositionOf(out) = Last(hist.marked)
    /\ PositionOf(out) = Last(errors_).where
    /\ out.byteOffset < getTotalBytesRead(in_)
    /\ ~pendingStartValid_

\* the blocks of the freelist are live allocations of freelistBlockSize_ bytes
FreelistBlocksSized ==
    \A i \in 1..Len(tagBufFreelist_) :
        /\ tagBufFreelist_[i] \in 1..Len(heap)
        /\ heap[tagBufFreelist_[i]].live
        /\ heap[tagBufFreelist_[i]].cap = freelistBlockSize_

\* C37: every block of the freelist has exactly freelistBlockSize_ bytes, and
\* freelistBlockSize_ is the current limit maxPerTagBytes, whatever frames
\* were pushed and popped, buffers taken and reset() calls made; so a buffer
\* of another capacity is never on the freelist.
C37_FreelistBlockSize ==
    /\ freelistBlockSize_ = lims_.maxPerTagBytes
    /\ FreelistBlocksSized

\* reset() has moved the buffer of an open frame to the freelist
C37_Witness ==
    /\ hist.lastOp = "reset"
    /\ hist.resetFrom = "open"
    /\ tagBufFreelist_ # <<>>
    /\ heap[Last(tagBufFreelist_)].cap = lims_.maxPerTagBytes
    /\ tagStack_ = <<>>

\* bytes held by the freelist: its blocks are maxPerTagBytes long each
FreelistMemory == Len(tagBufFreelist_) * lims_.maxPerTagBytes

\* C38: after any nextToken and reset() calls the freelist holds at most the
\* budget of 64 MiB (blocks times maxPerTagBytes); a buffer released when
\* the budget is reached is freed, not cached.
C38_FreelistBudget == FreelistMemory <= kFreelistMemoryBudget

\* tokens of the type emitted since construction or the last reset()
Emitted(type) ==
    Cardinality({i \in 1..Len(hist.emitted) : hist.emitted[i].tok.type = type})

\* change of the stack depth that goes with a token of the type
DepthChange(type) ==
    IF type = "StartTag" THEN 1
    ELSE IF type \in {"EndTag", "EmptyTag"} THEN -1
    ELSE 0

\* C39: as long as no Error token has been emitted since construction or
\* the last reset(), nestingDepth() is the number of StartTag tokens minus
\* the EndTag and the EmptyTag tokens emitted; the call that emits a
\* StartTag pushes one frame, which the '>' leaves on the stack, and the
\* calls that emit an EmptyTag or an EndTag pop exactly one frame.
C39_DepthCountsTags ==
    Emitted("Error") = 0 =>
      /\ nestingDepth(World)
            = Emitted("StartTag") - Emitted("EndTag") - Emitted("EmptyTag")
      /\ (hist.lastOp = "nextToken" /\ hist.ntok = 1) =>
            Len(tagStack_) =
                hist.depthBefore + DepthChange(Last(hist.emitted).tok.type)

\* <a><b/>: after the EmptyTag of b the frame of a is the only one left
C39_Witness ==
    /\ Emitted("Error") = 0
    /\ hist.lastOp = "nextToken"
    /\ hist.ntok = 1
    /\ Last(hist.emitted).tok.type = "EmptyTag"
    /\ Emitted("StartTag") = 2
    /\ Emitted("EmptyTag") = 1
    /\ hist.depthBefore = 2
    /\ nestingDepth(World) = 1

\* most scanners one nextToken() call dispatches to: '<', the name, the
\* attributes or the end of the tag, and the content behind it
MaxHops == 4

\* a call emits at most one token and returns after at most MaxHops scanners
CallBounded ==
    hist.lastOp = "nextToken" =>
        /\ hist.ntok \in {0, 1}
        /\ hist.hops <= MaxHops

\* a call that emits a token other than DocumentStart, DocumentEnd and Error
\* consumes input
TokenConsumes ==
    (/\ hist'.lastOp = "nextToken"
     /\ ~hist'.crashed
     /\ hist'.ntok = 1
     /\ Last(hist'.emitted).tok.type
           \notin {"DocumentStart", "DocumentEnd", "Error"})
    => getTotalBytesRead(in_') > getTotalBytesRead(in_)

\* the last nextToken() call returned false
ReceivedFalse == hist.lastOp = "nextToken" /\ hist.ret = FALSE

\* C40: on a finite input every nextToken() call returns after finitely many
\* transitions with at most one token, every token other than DocumentStart,
\* DocumentEnd and Error consumes at least one byte, and a caller that keeps
\* calling nextToken() eventually receives false.
C40_CallerReceivesFalse ==
    /\ []CallBounded
    /\ [][TokenConsumes]_vars
    /\ <>ReceivedFalse

====
